---- MODULE Spec2Model ----
(***************************************************************************)
(* Battle scene of NetNavi (src/scenes/battle_scene.py): the battle phase  *)
(* state machine, the custom gauge, the chip selection screen, the chip    *)
(* behaviour resolver, the entity set (projectiles, wave attacks, impact   *)
(* and slash effects), the combatant controllers and the reward            *)
(* computation.                                                            *)
(*                                                                         *)
(* Numbers.  The source computes with floats.  The model uses exact        *)
(* integers: a time is a number of 1/TimeScale seconds, a position on the  *)
(* grid a number of 1/PosScale tiles.  Every timer and speed constant of   *)
(* the source is a whole number of these units.                            *)
(*                                                                         *)
(* Left out: sprite animation, damage popups, screen shake, hit flash and  *)
(* colours (written by the handlers, read by draw() only).                 *)
(***************************************************************************)
EXTENDS Integers, Sequences, FiniteSets, TLC

----------------------------------------------------------------------------
(* Units *)

TimeScale == 4 * 5              \* time units per second
PosScale  == 2 * TimeScale      \* position units per tile

\* c hundredths of a second, in time units
Secs(c) == (c * TimeScale) \div 100
\* c hundredths of a tile, in position units
Tiles(c) == (c * PosScale) \div 100

Max(a, b) == IF a >= b THEN a ELSE b
Min(a, b) == IF a <= b THEN a ELSE b
Abs(a) == IF a < 0 THEN 0 - a ELSE a

\* distance travelled in dt time units at speed10 tenths of a tile per second
Travel(speed10, dt) == (speed10 * PosScale * dt) \div (10 * TimeScale)

\* Python's round() of a non-negative position, as a tile index (half to even)
RoundTile(p) ==
    LET q == p \div PosScale
        r == p % PosScale
    IN  IF 2 * r < PosScale THEN q
        ELSE IF 2 * r > PosScale THEN q + 1
        ELSE IF q % 2 = 0 THEN q ELSE q + 1

\* Python's int() of a non-negative position, as a tile index
IntTile(p) == p \div PosScale

----------------------------------------------------------------------------
(* Strings: a name is a sequence of characters, so that lower() and the    *)
(* substring test `in` are computed, not assumed.                          *)

UpperChars == <<"A","B","C","D","E","F","G","H","I","J","K","L","M",
                "N","O","P","Q","R","S","T","U","V","W","X","Y","Z">>
LowerChars == <<"a","b","c","d","e","f","g","h","i","j","k","l","m",
                "n","o","p","q","r","s","t","u","v","w","x","y","z">>

LowerChar(c) ==
    IF \E i \in 1..26 : UpperChars[i] = c
    THEN LowerChars[CHOOSE i \in 1..26 : UpperChars[i] = c]
    ELSE c

Lower(str) == [i \in 1..Len(str) |-> LowerChar(str[i])]

\* needle in hay
Contains(hay, needle) ==
    \E i \in 0..(Len(hay) - Len(needle)) :
        \A j \in 1..Len(needle) : hay[i + j] = needle[j]

----------------------------------------------------------------------------
(* Grid *)

grid_cols == 6
grid_rows == 3

InGrid(tx, ty) == 0 <= tx /\ tx < grid_cols /\ 0 <= ty /\ ty < grid_rows

----------------------------------------------------------------------------
(* Chips (src/combat/chips.py) *)

ParamKeys == {"dist", "delay", "splash", "diagonals", "push", "speed", "pierce", "duration"}

\* a params dict: each key holds {} (absent) or {value}
NoParams == [k \in ParamKeys |-> {}]
HasParam(params, k) == params[k] # {}
GetParam(params, k, default) ==
    IF HasParam(params, k) THEN CHOOSE v \in params[k] : TRUE ELSE default
\* {**params, k1: v1, ...}
WithParams(params, new) ==
    [k \in ParamKeys |-> IF k \in DOMAIN new THEN {new[k]} ELSE params[k]]

\* range patterns in which the wide sword reaches forward instead of sideways
RangePattern_WideIsLong(chip_type) ==
    CASE chip_type = "sword"     -> << <<1, 0>> >>
      [] chip_type = "widesword" -> << <<1, 0>>, <<2, 0>> >>
      [] chip_type = "longsword" -> << <<1, 0>>, <<2, 0>> >>
      [] OTHER                   -> << >>

\* Chip.__post_init__: the range pattern follows from the chip type
RangePattern(chip_type) ==
    CASE chip_type = "sword"     -> << <<1, 0>> >>
      [] chip_type = "widesword" -> << <<1, -1>>, <<1, 0>>, <<1, 1>> >>
      [] chip_type = "longsword" -> << <<1, 0>>, <<2, 0>> >>
      [] OTHER                   -> << >>

\* a Chip of the database: no behavior attribute, no params attribute
Chip(name, chip_type, power, code) ==
    [name |-> name, chip_type |-> chip_type, power |-> power, code |-> code,
     behavior |-> "None", params |-> NoParams]

\* a chip object that carries an explicit behavior tag and params
ChipWith(chip, behavior, new) ==
    [chip EXCEPT !.behavior = behavior, !.params = WithParams(NoParams, new)]

N_Cannon    == <<"C","a","n","n","o","n">>
N_HiCannon  == <<"H","i","C","a","n","n","o","n">>
N_MCannon   == <<"M","-","C","a","n","n","o","n">>
N_Spreader  == <<"S","p","r","e","a","d","e","r">>
N_MiniBomb  == <<"M","i","n","i","B","o","m","b">>
N_Sword     == <<"S","w","o","r","d">>
N_WideSword == <<"W","i","d","e","S","w","o","r","d">>
N_LongSword == <<"L","o","n","g","S","w","o","r","d">>
N_Recover10 == <<"R","e","c","o","v","e","r","1","0">>
N_Barrier   == <<"B","a","r","r","i","e","r">>
N_Invis     == <<"I","n","v","i","s">>

CHIP_DATABASE ==
    [Cannon    |-> Chip(N_Cannon, "attack", 40, "A"),
     HiCannon  |-> Chip(N_HiCannon, "attack", 60, "H"),
     MCannon   |-> Chip(N_MCannon, "attack", 80, "M"),
     Spreader  |-> Chip(N_Spreader, "attack", 30, "M"),
     MiniBomb  |-> Chip(N_MiniBomb, "attack", 50, "B"),
     Sword     |-> Chip(N_Sword, "sword", 80, "S"),
     WideSword |-> Chip(N_WideSword, "widesword", 80, "W"),
     LongSword |-> Chip(N_LongSword, "longsword", 80, "L"),
     Recover10 |-> Chip(N_Recover10, "heal", 10, "R"),
     Barrier   |-> Chip(N_Barrier, "defense", 10, "B"),
     Invis     |-> Chip(N_Invis, "defense", 0, "I")]

----------------------------------------------------------------------------
(* Enemies *)

N_Metaur    == <<"M","e","t","a","u","r">>
N_BossVirus == <<"B","o","s","s","V","i","r","u","s">>

\* _spawn_enemies: the spawn templates
virus_types ==
    << [name |-> N_Metaur, hp |-> 40, attack |-> 10, defense |-> 2],
       [name |-> N_Metaur, hp |-> 50, attack |-> 12, defense |-> 1],
       [name |-> N_Metaur, hp |-> 35, attack |-> 15, defense |-> 0],
       [name |-> N_Metaur, hp |-> 45, attack |-> 14, defense |-> 2],
       [name |-> N_Metaur, hp |-> 60, attack |-> 8,  defense |-> 4] >>

\* _spawn_enemies: the spawn tiles, before the shuffle
spawn_positions == << <<4, 0>>, <<5, 1>>, <<4, 2>>, <<5, 0>>, <<5, 2>> >>

\* random.uniform(a, b): the values the model draws
EnemyAttackInit  == {Secs(50), Secs(150)}   \* uniform(0.5, 1.5)
EnemyMoveInit    == {Secs(50), Secs(80)}    \* uniform(0.3, 0.8)
EnemyMoveRearm   == {Secs(100)}             \* uniform(0.6, 1.2)
EnemyAttackRearm == {Secs(100)}             \* uniform(1.0, 2.0)

\* Enemy.__init__
Enemy(name, hp, attack, defense, x, y, is_boss, attack_timer, move_timer) ==
    [name |-> name, hp |-> hp, max_hp |-> hp, attack |-> attack,
     defense |-> defense, x |-> x, y |-> y, is_boss |-> is_boss,
     attack_timer |-> attack_timer, move_timer |-> move_timer, alive |-> TRUE]

IsMetaur(name) ==
    LET name_lower == Lower(name)
    IN  Contains(name_lower, <<"m","e","t","a","u","r">>)
        \/ Contains(name_lower, <<"m","e","t","t","a","u","r">>)

----------------------------------------------------------------------------
(* Entities *)

NoOnHit == [kind |-> "None", power |-> 0, diagonals |-> FALSE, push |-> 0]

\* Projectile.__init__ (speed in tenths of a tile per second)
Projectile(x, y, dx, dy, damage, from_enemy, speed10, pierce, on_hit) ==
    [x |-> x, y |-> y, dx |-> dx, dy |-> dy, damage |-> damage,
     from_enemy |-> from_enemy, alive |-> TRUE, speed |-> speed10,
     pierce |-> pierce, on_hit |-> on_hit, hit_radius |-> Tiles(60)]

\* WaveAttack.__init__
WaveAttack(x, y, dx, damage) ==
    [x |-> x, y |-> y, dx |-> dx, damage |-> damage, alive |-> TRUE,
     speed |-> 80, hit_radius |-> Tiles(60)]

\* ImpactEffect.__init__
ImpactEffect(gx, gy, damage, delay, splash) ==
    [gx |-> gx, gy |-> gy, damage |-> damage, timer |-> delay,
     splash |-> splash, alive |-> TRUE]

\* SlashEffect.__init__
SlashEffect(positions, duration) ==
    [positions |-> positions, timer |-> duration]

----------------------------------------------------------------------------
(* State *)

VARIABLES
    phase,              \* "intro", "battle", "custom", "win", "lose"
    phase_timer,
    custom_gauge,
    navi,               \* game_state["navi"]: hp, max_hp, defense, buster_attack
    navi_x, navi_y,
    navi_move_timer,
    navi_buster_timer,
    navi_invis_timer,
    enemies,            \* sequence of Enemy
    projectiles,        \* sequence of Projectile
    wave_attacks,       \* sequence of WaveAttack
    slash_effects,      \* sequence of SlashEffect
    impact_effects,     \* sequence of ImpactEffect
    drawn_chips,        \* the hand
    selected_chips,
    chip_cursor,
    chip_queue,
    rewards,            \* zenny, chips, equipment
    battle_result,      \* "None", "win", "lose"
    zenny,              \* game_state["zenny"]
    folder_chips,       \* game_state["chip_folder"]["folder_chips"]
    owned_chips,        \* game_state["chip_folder"]["owned_chips"]
    equipment,          \* game_state["equipment"]: "None" or the items added
    scene,              \* what the scene manager shows: "battle", "previous", "hub"
    error,              \* "None", or the exception that left a handler
    frame_times,        \* the values of dt the main loop passes to update
    nticks,             \* update calls with dt > 0 taken in the phases battle, win, lose
    last,               \* the last call that changed the state: op, arg, phase before
    slots               \* the hand slots confirm was pressed on an odd number of
                        \* times (while fewer than 5 were) since the screen opened

vars == <<phase, phase_timer, custom_gauge, navi, navi_x, navi_y,
          navi_move_timer, navi_buster_timer, navi_invis_timer, enemies,
          projectiles, wave_attacks, slash_effects, impact_effects,
          drawn_chips, selected_chips, chip_cursor, chip_queue, rewards,
          battle_result, zenny, folder_chips, owned_chips, equipment, scene,
          error, frame_times, nticks, last, slots>>

\* the program state as one record, for the handlers below
Cur ==
    [phase |-> phase, phase_timer |-> phase_timer, custom_gauge |-> custom_gauge,
     navi |-> navi, navi_x |-> navi_x, navi_y |-> navi_y,
     navi_move_timer |-> navi_move_timer, navi_buster_timer |-> navi_buster_timer,
     navi_invis_timer |-> navi_invis_timer, enemies |-> enemies,
     projectiles |-> projectiles, wave_attacks |-> wave_attacks,
     slash_effects |-> slash_effects, impact_effects |-> impact_effects,
     drawn_chips |-> drawn_chips, selected_chips |-> selected_chips,
     chip_cursor |-> chip_cursor, chip_queue |-> chip_queue, rewards |-> rewards,
     battle_result |-> battle_result, zenny |-> zenny,
     folder_chips |-> folder_chips, owned_chips |-> owned_chips,
     equipment |-> equipment, scene |-> scene, error |-> error]

custom_gauge_max == 15 * TimeScale

----------------------------------------------------------------------------
(* Damage *)

\* a hit without the floor of 1
EnemyHit_NoFloor(e, damage) ==
    LET actual == damage - e.defense
        hp     == e.hp - actual
    IN  [e EXCEPT !.hp = hp, !.alive = IF hp <= 0 THEN FALSE ELSE e.alive]

\* BattleScene._enemy_hit
EnemyHit(e, damage) ==
    LET actual == Max(1, damage - e.defense)
        hp     == e.hp - actual
    IN  [e EXCEPT !.hp = hp, !.alive = IF hp <= 0 THEN FALSE ELSE e.alive]

\* a hit that ignores the invulnerability timer
NaviHit_IgnoreInvis(s, damage) ==
    LET actual == Max(1, damage - s.navi.defense)
    IN  [s EXCEPT !.navi.hp = Max(0, s.navi.hp - actual)]

\* a hit that does not stop the hp at 0
NaviHit_NoFloor(s, damage) ==
    IF s.navi_invis_timer > 0 THEN s
    ELSE LET actual == Max(1, damage - s.navi.defense)
         IN  [s EXCEPT !.navi.hp = s.navi.hp - actual]

\* BattleScene._navi_hit
NaviHit(s, damage) ==
    IF s.navi_invis_timer > 0 THEN s
    ELSE LET actual == Max(1, damage - s.navi.defense)
         IN  [s EXCEPT !.navi.hp = Max(0, s.navi.hp - actual)]

\* for e in self.enemies: if e.alive and e.x == tx and e.y == ty: _enemy_hit
HitEnemiesAt(es, tx, ty, damage) ==
    [i \in 1..Len(es) |->
        IF es[i].alive /\ es[i].x = tx /\ es[i].y = ty
        THEN EnemyHit(es[i], damage) ELSE es[i]]

\* the tiles of a list in order, those off the grid skipped
RECURSIVE HitTiles(_, _, _)
HitTiles(es, tiles, damage) ==
    IF tiles = << >> THEN es
    ELSE LET t == Head(tiles)
         IN  HitTiles(IF InGrid(t[1], t[2])
                      THEN HitEnemiesAt(es, t[1], t[2], damage) ELSE es,
                      Tail(tiles), damage)

----------------------------------------------------------------------------
(* Impacts *)

\* a cross that leaves out the tile to the left of the centre
ImpactTiles_NoWest(imp) ==
    LET gx == imp.gx
        gy == imp.gy
    IN  IF imp.splash = "cross1"
        THEN << <<gx, gy>>, <<gx + 1, gy>>, <<gx, gy - 1>>, <<gx, gy + 1>> >>
        ELSE << <<gx, gy>> >>

\* _resolve_impact: hit_tiles
ImpactTiles(imp) ==
    LET gx == imp.gx
        gy == imp.gy
        centre == << <<gx, gy>> >>
        Cross(r) == << <<gx - r, gy>>, <<gx + r, gy>>, <<gx, gy - r>>, <<gx, gy + r>> >>
        Col(dx) == << <<gx + dx, gy - 1>>, <<gx + dx, gy>>, <<gx + dx, gy + 1>> >>
    IN  CASE imp.splash = "cross1"  -> centre \o Cross(1)
          [] imp.splash = "cross2"  -> centre \o Cross(1) \o Cross(2)
          [] imp.splash = "square1" -> centre \o Col(-1) \o Col(0) \o Col(1)
          [] OTHER                  -> centre

\* BattleScene._resolve_impact
ResolveImpact(es, imp) == HitTiles(es, ImpactTiles(imp), imp.damage)

\* an impact loop that forgets to clear the alive flag of what it resolves
RECURSIVE ImpactsLoop_KeepResolved(_, _, _, _)
ImpactsLoop_KeepResolved(imps, es, kept, dt) ==
    IF imps = << >> THEN [enemies |-> es, impact_effects |-> kept]
    ELSE LET imp   == Head(imps)
             timer == imp.timer - dt
         IN  IF timer <= 0 /\ imp.alive
             THEN ImpactsLoop_KeepResolved(Tail(imps), ResolveImpact(es, imp),
                              Append(kept, [imp EXCEPT !.timer = timer]), dt)
             ELSE ImpactsLoop_KeepResolved(Tail(imps), es,
                              IF imp.alive
                              THEN Append(kept, [imp EXCEPT !.timer = timer])
                              ELSE kept, dt)

\* BattleScene._update_impacts: the loop, then the filter on alive
RECURSIVE ImpactsLoop(_, _, _, _)
ImpactsLoop(imps, es, kept, dt) ==
    IF imps = << >> THEN [enemies |-> es, impact_effects |-> kept]
    ELSE LET imp   == Head(imps)
             timer == imp.timer - dt
         IN  IF timer <= 0 /\ imp.alive
             THEN ImpactsLoop(Tail(imps), ResolveImpact(es, imp), kept, dt)
             ELSE ImpactsLoop(Tail(imps), es,
                              IF imp.alive
                              THEN Append(kept, [imp EXCEPT !.timer = timer])
                              ELSE kept, dt)

UpdateImpacts(s, dt) ==
    LET r == ImpactsLoop(s.impact_effects, s.enemies, << >>, dt)
    IN  [s EXCEPT !.enemies = r.enemies, !.impact_effects = r.impact_effects]

----------------------------------------------------------------------------
(* Projectiles and wave attacks *)

\* a spreader that leaves out the two diagonal tiles
OnHit_NoDiagonals(es, oh, k) ==
    IF oh.kind = "spreader"
    THEN HitEnemiesAt(es, es[k].x + 1, es[k].y, oh.power)
    ELSE es

\* an airshot that pushes whether or not the tile behind is taken
OnHit_PushThrough(es, oh, k) ==
    IF oh.kind = "airshot"
    THEN [es EXCEPT ![k].x = Max(3, Min(5, es[k].x + oh.push))]
    ELSE es

\* the on_hit closures of _fire_shotgun, _fire_spreader and _fire_airshot,
\* called with the struck enemy (index k) and its tile
OnHit(es, oh, k) ==
    LET hx == es[k].x
        hy == es[k].y
    IN  CASE oh.kind = "shotgun" ->
               HitEnemiesAt(es, hx + 1, hy, oh.power)
          [] oh.kind = "spreader" ->
               HitTiles(es,
                        << <<hx + 1, hy>> >> \o
                        (IF oh.diagonals
                         THEN << <<hx + 1, hy - 1>>, <<hx + 1, hy + 1>> >>
                         ELSE << >>),
                        oh.power)
          [] oh.kind = "airshot" ->
               LET new_x == Min(5, hx + oh.push)
                   occupied == \E j \in 1..Len(es) :
                                  /\ es[j].alive /\ j # k
                                  /\ es[j].x = new_x /\ es[j].y = hy
               IN  IF occupied THEN es
                   ELSE [es EXCEPT ![k].x = Max(3, new_x)]
          [] OTHER -> es

OutOfBounds(x, y) ==
    \/ x < 0 - PosScale \/ x > grid_cols * PosScale
    \/ y < 0 - PosScale \/ y > grid_rows * PosScale

Within(p, tx, ty) ==
    /\ Abs(p.x - tx * PosScale) < p.hit_radius
    /\ Abs(p.y - ty * PosScale) < p.hit_radius

\* a projectile loop without the bounds test
ProjectileStep_NoBounds(s, proj, dt) ==
    LET p == [proj EXCEPT !.x = proj.x + proj.dx * Travel(proj.speed, dt),
                          !.y = proj.y + proj.dy * Travel(proj.speed, dt)]
        hit == {k \in 1..Len(s.enemies) :
                   s.enemies[k].alive /\ Within(p, s.enemies[k].x, s.enemies[k].y)}
    IN  IF p.from_enemy
        THEN IF Within(p, s.navi_x, s.navi_y)
             THEN [s |-> NaviHit(s, p.damage), proj |-> [p EXCEPT !.alive = FALSE]]
             ELSE [s |-> s, proj |-> p]
        ELSE IF hit = {} THEN [s |-> s, proj |-> p]
        ELSE LET k == CHOOSE k \in hit : \A j \in hit : k <= j
             IN  [s |-> [s EXCEPT !.enemies[k] = EnemyHit(@, p.damage)],
                  proj |-> [p EXCEPT !.alive = FALSE]]

\* a projectile loop in which a hit never ends the projectile
ProjectileStep_Pierces(s, proj, dt) ==
    LET p == [proj EXCEPT !.x = proj.x + proj.dx * Travel(proj.speed, dt),
                          !.y = proj.y + proj.dy * Travel(proj.speed, dt)]
        hit == {k \in 1..Len(s.enemies) :
                   s.enemies[k].alive /\ Within(p, s.enemies[k].x, s.enemies[k].y)}
    IN  IF OutOfBounds(p.x, p.y)
        THEN [s |-> s, proj |-> [p EXCEPT !.alive = FALSE]]
        ELSE IF p.from_enemy
        THEN IF Within(p, s.navi_x, s.navi_y)
             THEN [s |-> NaviHit(s, p.damage), proj |-> p]
             ELSE [s |-> s, proj |-> p]
        ELSE IF hit = {} THEN [s |-> s, proj |-> p]
        ELSE LET k == CHOOSE k \in hit : \A j \in hit : k <= j
             IN  [s |-> [s EXCEPT !.enemies[k] = EnemyHit(@, p.damage)], proj |-> p]

\* a projectile loop that does not ask whether the enemy in reach is alive
ProjectileStep_HitsDead(s, proj, dt) ==
    LET p == [proj EXCEPT !.x = proj.x + proj.dx * Travel(proj.speed, dt),
                          !.y = proj.y + proj.dy * Travel(proj.speed, dt)]
        hit == {k \in 1..Len(s.enemies) : Within(p, s.enemies[k].x, s.enemies[k].y)}
    IN  IF OutOfBounds(p.x, p.y)
        THEN [s |-> s, proj |-> [p EXCEPT !.alive = FALSE]]
        ELSE IF p.from_enemy
        THEN IF Within(p, s.navi_x, s.navi_y)
             THEN [s |-> NaviHit(s, p.damage), proj |-> [p EXCEPT !.alive = FALSE]]
             ELSE [s |-> s, proj |-> p]
        ELSE IF hit = {} THEN [s |-> s, proj |-> p]
        ELSE LET k == CHOOSE k \in hit : \A j \in hit : k <= j
             IN  [s |-> [s EXCEPT !.enemies[k] = EnemyHit(@, p.damage)],
                  proj |-> [p EXCEPT !.alive = FALSE]]

\* one projectile of the loop of _update_projectiles, on the state so far
ProjectileStep(s, proj, dt) ==
    LET p == [proj EXCEPT !.x = proj.x + proj.dx * Travel(proj.speed, dt),
                          !.y = proj.y + proj.dy * Travel(proj.speed, dt)]
    IN  IF OutOfBounds(p.x, p.y)
        THEN [s |-> s, proj |-> [p EXCEPT !.alive = FALSE]]
        ELSE IF p.from_enemy
        THEN IF Within(p, s.navi_x, s.navi_y)
             THEN [s |-> NaviHit(s, p.damage), proj |-> [p EXCEPT !.alive = FALSE]]
             ELSE [s |-> s, proj |-> p]
        ELSE LET hit == {k \in 1..Len(s.enemies) :
                            s.enemies[k].alive
                            /\ Within(p, s.enemies[k].x, s.enemies[k].y)}
             IN  IF hit = {} THEN [s |-> s, proj |-> p]
                 ELSE LET k  == CHOOSE k \in hit : \A j \in hit : k <= j
                          es == [s.enemies EXCEPT ![k] = EnemyHit(@, p.damage)]
                      IN  [s |-> [s EXCEPT !.enemies = OnHit(es, p.on_hit, k)],
                           proj |-> IF p.pierce THEN p ELSE [p EXCEPT !.alive = FALSE]]

RECURSIVE ProjectilesLoop(_, _, _, _)
ProjectilesLoop(s, projs, kept, dt) ==
    IF projs = << >> THEN [s EXCEPT !.projectiles = kept]
    ELSE LET r == ProjectileStep(s, Head(projs), dt)
         IN  ProjectilesLoop(r.s, Tail(projs),
                             IF r.proj.alive THEN Append(kept, r.proj) ELSE kept, dt)

\* BattleScene._update_projectiles
UpdateProjectiles(s, dt) == ProjectilesLoop(s, s.projectiles, << >>, dt)

RECURSIVE WavesLoop(_, _, _, _)
WavesLoop(s, waves, kept, dt) ==
    IF waves = << >> THEN [s EXCEPT !.wave_attacks = kept]
    ELSE LET w0 == Head(waves)
             w  == [w0 EXCEPT !.x = w0.x + w0.dx * Travel(w0.speed, dt)]
         IN  IF w.x < 0 - PosScale \/ w.x > grid_cols * PosScale
             THEN WavesLoop(s, Tail(waves), kept, dt)
             ELSE IF Within(w, s.navi_x, s.navi_y)
             THEN WavesLoop(NaviHit(s, w.damage), Tail(waves), kept, dt)
             ELSE WavesLoop(s, Tail(waves), Append(kept, w), dt)

\* BattleScene._update_wave_attacks
UpdateWaveAttacks(s, dt) == WavesLoop(s, s.wave_attacks, << >>, dt)

----------------------------------------------------------------------------
(* Chip behaviour resolver *)

\* BattleScene._chip_is_invis
ChipIsInvis(chip) ==
    \/ chip.behavior \in {"buff_invis", "invis"}
    \/ Contains(Lower(chip.name), <<"i","n","v","i","s">>)

\* a name test that is sensitive to case
InferBehaviorFromName_CaseSensitive(chip, params) ==
    IF Contains(chip.name, <<"b","o","m","b">>)
    THEN [behavior |-> "lob",
          params |-> WithParams(params, [dist |-> 3, delay |-> Secs(45),
                                         splash |-> "single"])]
    ELSE [behavior |-> "projectile", params |-> params]

\* BattleScene._infer_behavior_from_name
InferBehaviorFromName(chip, params) ==
    LET name == Lower(chip.name)
    IN  IF Contains(name, <<"b","o","m","b">>)
        THEN IF Contains(name, <<"m","i","n","i">>)
             THEN [behavior |-> "lob",
                   params |-> WithParams(params, [dist |-> 3, delay |-> Secs(45),
                                                  splash |-> "single"])]
             ELSE [behavior |-> "lob",
                   params |-> WithParams(params, [dist |-> 3, delay |-> Secs(50),
                                                  splash |-> "cross1"])]
        ELSE IF Contains(name, <<"s","p","r","e","a","d","e","r">>)
        THEN [behavior |-> "spreader",
              params |-> WithParams(params, [diagonals |-> TRUE])]
        ELSE IF Contains(name, <<"s","h","o","t","g","u","n">>)
        THEN [behavior |-> "shotgun", params |-> params]
        ELSE IF \/ Contains(name, <<"a","i","r","s","h","o","t">>)
                \/ Contains(name, <<"a","i","r"," ","s","h","o","t">>)
        THEN [behavior |-> "airshot", params |-> WithParams(params, [push |-> 1])]
        ELSE [behavior |-> "projectile", params |-> params]

\* an invis chip whose duration adds to the time left
ApplyInvis_Additive(s, chip) ==
    LET dur == GetParam(chip.params, "duration", Secs(300))
    IN  [s EXCEPT !.navi_invis_timer = s.navi_invis_timer + dur]

\* BattleScene._apply_invis
ApplyInvis(s, chip) ==
    LET dur == GetParam(chip.params, "duration", Secs(300))
    IN  [s EXCEPT !.navi_invis_timer = Max(s.navi_invis_timer, dur)]

\* BattleScene._use_lob_chip
UseLobChip(s, chip, params) ==
    LET dist   == GetParam(params, "dist", 3)
        delay  == GetParam(params, "delay", Secs(45))
        splash == GetParam(params, "splash", "single")
        gx     == Min(grid_cols - 1, s.navi_x + dist)
        gy     == s.navi_y
    IN  [s EXCEPT !.impact_effects =
            Append(@, ImpactEffect(gx, gy, chip.power, delay, splash))]

\* the projectile every attack chip fires from the tile edge in front of the navi
ChipShot(s, chip, speed10, pierce, on_hit) ==
    [s EXCEPT !.projectiles =
        Append(@, Projectile(s.navi_x * PosScale + Tiles(50), s.navi_y * PosScale,
                             1, 0, chip.power, FALSE, speed10, pierce, on_hit))]

\* BattleScene._fire_chip_projectile
FireChipProjectile(s, chip, params) ==
    ChipShot(s, chip, GetParam(params, "speed", 60),
             GetParam(params, "pierce", FALSE), NoOnHit)

\* BattleScene._fire_shotgun
FireShotgun(s, chip, params) ==
    ChipShot(s, chip, GetParam(params, "speed", 65), FALSE,
             [NoOnHit EXCEPT !.kind = "shotgun", !.power = chip.power])

\* BattleScene._fire_spreader
FireSpreader(s, chip, params) ==
    ChipShot(s, chip, GetParam(params, "speed", 60), FALSE,
             [NoOnHit EXCEPT !.kind = "spreader", !.power = chip.power,
                             !.diagonals = GetParam(params, "diagonals", TRUE)])

\* BattleScene._fire_airshot
FireAirshot(s, chip, params) ==
    ChipShot(s, chip, GetParam(params, "speed", 70), FALSE,
             [NoOnHit EXCEPT !.kind = "airshot", !.power = chip.power,
                             !.push = GetParam(params, "push", 1)])

\* BattleScene._use_sword: the loop over chip.range_pattern
RECURSIVE SwordLoop(_, _, _, _)
SwordLoop(s, pattern, hit_positions, power) ==
    IF pattern = << >>
    THEN [s EXCEPT !.slash_effects = Append(@, SlashEffect(hit_positions, Secs(25)))]
    ELSE LET target_x == s.navi_x + Head(pattern)[1]
             target_y == s.navi_y + Head(pattern)[2]
         IN  IF InGrid(target_x, target_y)
             THEN SwordLoop([s EXCEPT !.enemies =
                                HitEnemiesAt(@, target_x, target_y, power)],
                            Tail(pattern),
                            Append(hit_positions, <<target_x, target_y>>), power)
             ELSE SwordLoop(s, Tail(pattern), hit_positions, power)

UseSword(s, chip) == SwordLoop(s, RangePattern(chip.chip_type), << >>, chip.power)

\* a resolver that tests for invis before it tests for heal
UseChip_InvisFirst(s, chip) ==
    IF ChipIsInvis(chip) THEN ApplyInvis(s, chip)
    ELSE IF chip.chip_type = "heal"
    THEN [s EXCEPT !.navi.hp = Min(s.navi.max_hp, s.navi.hp + chip.power)]
    ELSE IF chip.chip_type \in {"sword", "widesword", "longsword"}
    THEN UseSword(s, chip)
    ELSE IF chip.chip_type = "attack"
    THEN FireChipProjectile(s, chip, chip.params)
    ELSE s

\* a resolver that fires every chip it does not recognise
UseChip_FireUnknown(s, chip) ==
    IF chip.chip_type = "heal"
    THEN [s EXCEPT !.navi.hp = Min(s.navi.max_hp, s.navi.hp + chip.power)]
    ELSE IF ChipIsInvis(chip) THEN ApplyInvis(s, chip)
    ELSE IF chip.chip_type \in {"sword", "widesword", "longsword"}
    THEN UseSword(s, chip)
    ELSE FireChipProjectile(s, chip, chip.params)

\* a resolver whose heal is not capped by max_hp
UseChip_HealNoCap(s, chip) ==
    IF chip.chip_type = "heal"
    THEN [s EXCEPT !.navi.hp = s.navi.hp + chip.power]
    ELSE IF ChipIsInvis(chip) THEN ApplyInvis(s, chip)
    ELSE IF chip.chip_type \in {"sword", "widesword", "longsword"}
    THEN UseSword(s, chip)
    ELSE IF chip.chip_type = "attack"
    THEN FireChipProjectile(s, chip, chip.params)
    ELSE s

\* BattleScene._use_chip
UseChip(s, chip) ==
    IF chip.chip_type = "heal"
    THEN [s EXCEPT !.navi.hp = Min(s.navi.max_hp, s.navi.hp + chip.power)]
    ELSE IF ChipIsInvis(chip) THEN ApplyInvis(s, chip)
    ELSE IF chip.chip_type \in {"sword", "widesword", "longsword"}
    THEN UseSword(s, chip)
    ELSE IF chip.chip_type = "attack"
    THEN LET b == IF chip.behavior = "None"
                  THEN InferBehaviorFromName(chip, chip.params)
                  ELSE [behavior |-> chip.behavior, params |-> chip.params]
         IN  CASE b.behavior = "lob"      -> UseLobChip(s, chip, b.params)
               [] b.behavior = "spreader" -> FireSpreader(s, chip, b.params)
               [] b.behavior = "shotgun"  -> FireShotgun(s, chip, b.params)
               [] b.behavior = "airshot"  -> FireAirshot(s, chip, b.params)
               [] OTHER                   -> FireChipProjectile(s, chip, b.params)
    ELSE s

----------------------------------------------------------------------------
(* Player autopilot *)

buster_cooldown == Secs(80)

\* a sort that puts the row farthest from the navi first
SafeRow_Farthest(danger_row, y) ==
    CHOOSE r \in 0..2 :
        /\ r # danger_row
        /\ \A q \in (0..2) \ {danger_row} : Abs(r - y) >= Abs(q - y)

\* the rows of range(3) other than danger_row, nearest to the navi first
\* (sort() is stable, so of two rows equally near the lower one stays first)
SafeRow(danger_row, y) ==
    CHOOSE r \in 0..2 :
        /\ r # danger_row
        /\ \A q \in (0..2) \ {danger_row} :
              \/ Abs(r - y) < Abs(q - y)
              \/ (Abs(r - y) = Abs(q - y) /\ r <= q)

\* the test of _navi_ai_move on a projectile or wave attack
Dangerous(p, y) ==
    /\ p.dx < 0 /\ 0 < p.x /\ p.x < Tiles(350)
    /\ Abs(p.y - y * PosScale) < Tiles(60)

\* an autopilot whose sideways step is not clamped to the navi's columns
NaviAiMove_NoClamp(s) ==
    {s} \cup {[s EXCEPT !.navi_y = r] : r \in 0..2}
        \cup {[s EXCEPT !.navi_x = s.navi_x + d] : d \in {-1, 1}}

\* BattleScene._navi_ai_move: the set of results over the random draws
NaviAiMove(s) ==
    LET dp == {i \in 1..Len(s.projectiles) :
                  s.projectiles[i].from_enemy /\ Dangerous(s.projectiles[i], s.navi_y)}
        dw == {i \in 1..Len(s.wave_attacks) : Dangerous(s.wave_attacks[i], s.navi_y)}
        First(S) == CHOOSE i \in S : \A j \in S : i <= j
    IN  IF dp # {}
        THEN {[s EXCEPT !.navi_y = SafeRow(RoundTile(s.projectiles[First(dp)].y), s.navi_y)]}
        ELSE IF dw # {}
        THEN {[s EXCEPT !.navi_y = SafeRow(RoundTile(s.wave_attacks[First(dw)].y), s.navi_y)]}
        ELSE {s}
             \cup {[s EXCEPT !.navi_y = r] : r \in 0..2}
             \cup {[s EXCEPT !.navi_x = Max(0, Min(2, s.navi_x + d))] : d \in {-1, 1}}

\* BattleScene._fire_buster
FireBuster(s) ==
    [s EXCEPT !.projectiles =
        Append(@, Projectile(s.navi_x * PosScale + Tiles(50), s.navi_y * PosScale,
                             1, 0, s.navi.buster_attack, FALSE, 80, FALSE, NoOnHit))]

\* BattleScene._update_navi
UpdateNavi(s, dt) ==
    LET mt == s.navi_move_timer + dt
        moved == IF mt >= Secs(50)
                 THEN NaviAiMove([s EXCEPT !.navi_move_timer = 0])
                 ELSE {[s EXCEPT !.navi_move_timer = mt]}
        Buster(m) == LET bt == m.navi_buster_timer + dt
                     IN  IF bt >= buster_cooldown
                         THEN FireBuster([m EXCEPT !.navi_buster_timer = 0])
                         ELSE [m EXCEPT !.navi_buster_timer = bt]
    IN  {Buster(m) : m \in moved}

----------------------------------------------------------------------------
(* Enemy controller *)

\* BattleScene._enemy_move: the set of results over the random draws
EnemyMove(e, y) ==
    LET Clamp(f) == [f EXCEPT !.x = Max(3, Min(5, f.x)), !.y = Max(0, Min(2, f.y))]
        vertical == IF e.y < y /\ e.y < 2 THEN [e EXCEPT !.y = e.y + 1]
                    ELSE IF e.y > y /\ e.y > 0 THEN [e EXCEPT !.y = e.y - 1]
                    ELSE e
        right == IF e.x < 5 THEN {[e EXCEPT !.x = e.x + 1]} ELSE {}
        left  == IF e.x > 3 THEN {[e EXCEPT !.x = e.x - 1]} ELSE {}
    IN  {e} \cup {Clamp(f) : f \in {vertical} \cup right \cup left \cup {e}}

\* BattleScene._enemy_attack, for enemy k
EnemyAttack(s, k) ==
    LET e == s.enemies[k]
    IN  IF IsMetaur(e.name)
        THEN [s EXCEPT !.wave_attacks =
                 Append(@, WaveAttack(e.x * PosScale - Tiles(50), e.y * PosScale,
                                      -1, e.attack))]
        ELSE [s EXCEPT !.projectiles =
                 Append(@, Projectile(e.x * PosScale - Tiles(50), e.y * PosScale,
                                      -1, 0, e.attack, TRUE, 35, FALSE, NoOnHit))]

\* a loop body that does not skip the enemies that are not alive
EnemyStep_DeadActs(s, k, dt) ==
    LET e  == s.enemies[k]
        mt == e.move_timer - dt
        at == e.attack_timer - dt
        moved == IF mt <= 0
                 THEN {[f EXCEPT !.move_timer = t] :
                          f \in EnemyMove(e, s.navi_y), t \in EnemyMoveRearm}
                 ELSE {[e EXCEPT !.move_timer = mt]}
    IN  IF at <= 0
        THEN {EnemyAttack([s EXCEPT !.enemies[k] = [f EXCEPT !.attack_timer = t]], k) :
                 f \in moved, t \in EnemyAttackRearm}
        ELSE {[s EXCEPT !.enemies[k] = [f EXCEPT !.attack_timer = at]] : f \in moved}

\* one enemy of the loop of _update_enemies: the set of results
EnemyStep(s, k, dt) ==
    LET e  == s.enemies[k]
        mt == e.move_timer - dt
        at == e.attack_timer - dt
        moved == IF mt <= 0
                 THEN {[f EXCEPT !.move_timer = t] :
                          f \in EnemyMove(e, s.navi_y), t \in EnemyMoveRearm}
                 ELSE {[e EXCEPT !.move_timer = mt]}
    IN  IF ~e.alive THEN {s}
        ELSE IF at <= 0
        THEN {EnemyAttack([s EXCEPT !.enemies[k] = [f EXCEPT !.attack_timer = t]], k) :
                 f \in moved, t \in EnemyAttackRearm}
        ELSE {[s EXCEPT !.enemies[k] = [f EXCEPT !.attack_timer = at]] : f \in moved}

RECURSIVE EnemiesLoop(_, _, _)
EnemiesLoop(S, k, dt) ==
    IF S = {} \/ k > Len((CHOOSE s \in S : TRUE).enemies) THEN S
    ELSE EnemiesLoop(UNION {EnemyStep(s, k, dt) : s \in S}, k + 1, dt)

\* BattleScene._update_enemies: the set of results
UpdateEnemies(s, dt) == EnemiesLoop({s}, 1, dt)

----------------------------------------------------------------------------
(* Equipment *)

\* item in self.equipped
InSeqOf(x, seq) == \E i \in 1..Len(seq) : seq[i] = x

\* EQUIPMENT_DB: the items whose stat is max_hp, attack or defense
EquipNames == {"ATK+1", "HP+50", "Shield", "BusterPack"}

EQUIPMENT_DB ==
    [n \in EquipNames |->
        CASE n = "ATK+1"      -> [cost |-> 2, stat |-> "attack",  value |-> 1]
          [] n = "HP+50"      -> [cost |-> 3, stat |-> "max_hp",  value |-> 50]
          [] n = "Shield"     -> [cost |-> 4, stat |-> "defense", value |-> 2]
          [] n = "BusterPack" -> [cost |-> 5, stat |-> "attack",  value |-> 3]]

max_cp == 10

\* Equipment.get_used_cp
RECURSIVE GetUsedCp(_)
GetUsedCp(equipped) ==
    IF equipped = << >> THEN 0
    ELSE EQUIPMENT_DB[Head(equipped)].cost + GetUsedCp(Tail(equipped))

\* Equipment.can_equip, for an item the player owns
CanEquip(equipped, item) ==
    /\ ~InSeqOf(item, equipped)
    /\ GetUsedCp(equipped) + EQUIPMENT_DB[item].cost <= max_cp

\* the confirm key of the equipment scene on item
ToggleEquipment(eq, item) ==
    IF InSeqOf(item, eq.equipped)
    THEN [eq EXCEPT !.equipped = SelectSeq(@, LAMBDA n : n # item)]
    ELSE IF CanEquip(eq.equipped, item)
    THEN [eq EXCEPT !.equipped = Append(@, item)]
    ELSE eq

RECURSIVE BonusOf(_, _)
BonusOf(equipped, stat) ==
    IF equipped = << >> THEN 0
    ELSE (IF EQUIPMENT_DB[Head(equipped)].stat = stat
          THEN EQUIPMENT_DB[Head(equipped)].value ELSE 0)
         + BonusOf(Tail(equipped), stat)

\* Equipment.get_stat_bonuses: a dict that has a key for a stat only when an
\* equipped item carries that stat
GetStatBonuses(equipped) ==
    [stat \in {EQUIPMENT_DB[equipped[i]].stat : i \in 1..Len(equipped)} |->
        BonusOf(equipped, stat)]

\* the (hp, old_max, new_max) below 150 for which the double-precision
\* int(new_max * (hp / old_max)) falls one short of the exact quotient
FloatShort ==
    {<<29, 100, 100>>, <<57, 100, 100>>, <<58, 100, 100>>, <<82, 100, 150>>,
     <<87, 150, 100>>, <<55, 150, 150>>, <<79, 150, 150>>, <<97, 150, 150>>,
     <<110, 150, 150>>, <<123, 150, 150>>}

\* hp_pct = hp / old_max; int(new_max * hp_pct)
Rescale(hp, old_max, new_max) ==
    ((new_max * hp) \div old_max)
       - (IF <<hp, old_max, new_max>> \in FloatShort THEN 1 ELSE 0)

\* BattleScene._apply_equipment_bonuses, on the navi nv of the game state
ApplyEquipmentBonuses(nv, eq) ==
    IF ~eq.present THEN nv
    ELSE LET bonuses == GetStatBonuses(eq.equipped)
             a == IF "attack" \in DOMAIN bonuses
                  THEN [nv EXCEPT !.buster_attack = 1 + bonuses["attack"]]
                  ELSE nv
             m == IF "max_hp" \in DOMAIN bonuses
                  THEN LET new_max == 100 + bonuses["max_hp"]
                       IN  [a EXCEPT !.max_hp = new_max,
                                     !.hp = IF a.max_hp > 0
                                            THEN Rescale(a.hp, a.max_hp, new_max)
                                            ELSE a.hp]
                  ELSE a
         IN  IF "defense" \in DOMAIN bonuses
             THEN [m EXCEPT !.defense = 5 + bonuses["defense"]]
             ELSE m

----------------------------------------------------------------------------
(* Win, lose and rewards *)

\* roll_chip_drop and roll_equipment_drop: the names the model lets them return
\* (each may also return None)
ChipDrops  == {"Cannon"}
EquipDrops == {"ATK+1"}

\* a _win that pays for the hp the enemies have left
BaseZenny_CurrentHp(es) ==
    LET SumZenny[i \in 0..Len(es)] ==
            IF i = 0 THEN 0 ELSE SumZenny[i - 1] + (20 + es[i].hp)
    IN  SumZenny[Len(es)]

\* _win: sum(20 + e.max_hp for e in self.enemies)
BaseZenny(es) ==
    LET SumZenny[i \in 0..Len(es)] ==
            IF i = 0 THEN 0 ELSE SumZenny[i - 1] + (20 + es[i].max_hp)
    IN  SumZenny[Len(es)]

\* BattleScene._win: the set of results over the drop rolls.  A chip drop
\* builds Chip(name, power, chip_type), one argument short of the dataclass:
\* the TypeError leaves _win with the chip name already in rewards.  An
\* equipment drop without game_state["equipment"] is a KeyError.
Win(s) ==
    LET base_zenny == BaseZenny(s.enemies)
        w == [s EXCEPT !.phase = "win", !.phase_timer = Secs(250),
                       !.rewards = [zenny |-> base_zenny, chips |-> << >>,
                                    equipment |-> "None"],
                       !.zenny = s.zenny + base_zenny]
    IN  {[w EXCEPT !.rewards.chips = <<n>>, !.error = "TypeError"] : n \in ChipDrops}
        \cup {[w EXCEPT !.battle_result = "win"]}
        \cup {IF w.equipment.present
              THEN [w EXCEPT !.rewards.equipment = n,
                             !.equipment.added = Append(@, n),
                             !.battle_result = "win"]
              ELSE [w EXCEPT !.rewards.equipment = n, !.error = "KeyError"]
              : n \in EquipDrops}

\* BattleScene._lose
Lose(s) ==
    [s EXCEPT !.phase = "lose", !.phase_timer = Secs(250), !.battle_result = "lose"]

----------------------------------------------------------------------------
(* update(dt) *)

\* a terminal check that looks at the navi first
TerminalCheck_LoseFirst(s) ==
    IF s.navi.hp <= 0 THEN {Lose(s)}
    ELSE IF \A k \in 1..Len(s.enemies) : ~s.enemies[k].alive THEN Win(s)
    ELSE {s}

\* the terminal check at the end of _update_battle
TerminalCheck(s) ==
    IF \A k \in 1..Len(s.enemies) : ~s.enemies[k].alive THEN Win(s)
    ELSE IF s.navi.hp <= 0 THEN {Lose(s)}
    ELSE {s}

\* a gauge without its cap
FillGauge_NoCap(s, dt) ==
    [s EXCEPT !.custom_gauge = s.custom_gauge + dt]

\* the gauge lines of _update_battle
FillGauge(s, dt) ==
    [s EXCEPT !.custom_gauge = Min(s.custom_gauge + dt, custom_gauge_max)]

\* a tick that runs the controllers before the projectiles and waves
UpdateBattle_ControllersFirst(s, dt) ==
    LET S2 == UNION {UpdateEnemies(n, dt) : n \in UpdateNavi(s, dt)}
    IN  UNION {TerminalCheck(FillGauge(UpdateWaveAttacks(UpdateProjectiles(x, dt), dt), dt)) :
                  x \in S2}

\* BattleScene._update_battle: the set of results
UpdateBattle(s, dt) ==
    LET s2 == UpdateWaveAttacks(UpdateProjectiles(s, dt), dt)
        S4 == UNION {UpdateEnemies(n, dt) : n \in UpdateNavi(s2, dt)}
    IN  UNION {TerminalCheck(FillGauge(x, dt)) : x \in S4}

\* update(): the slash effect loop
UpdateSlashes(s, dt) ==
    LET aged == [i \in 1..Len(s.slash_effects) |->
                    [s.slash_effects[i] EXCEPT !.timer = @ - dt]]
    IN  [s EXCEPT !.slash_effects = SelectSeq(aged, LAMBDA e : e.timer > 0)]

\* update(): what runs in every phase, before the phase logic
UpdateCommon(s, dt) ==
    UpdateImpacts(
        UpdateSlashes([s EXCEPT !.navi_invis_timer = Max(0, s.navi_invis_timer - dt)],
                      dt),
        dt)

\* an intro that ends with the gauge as it was
UpdatePhase_NoPrefill(s, dt) ==
    CASE s.phase = "intro" ->
           LET t == s.phase_timer - dt
           IN  IF t <= 0
               THEN {[s EXCEPT !.phase_timer = t, !.phase = "battle"]}
               ELSE {[s EXCEPT !.phase_timer = t]}
      [] s.phase = "battle" -> UpdateBattle(s, dt)
      [] s.phase \in {"win", "lose"} -> {[s EXCEPT !.phase_timer = s.phase_timer - dt]}
      [] OTHER -> {s}

\* a gauge that keeps filling while the custom screen is open
UpdatePhase_FillInCustom(s, dt) ==
    CASE s.phase = "intro" ->
           LET t == s.phase_timer - dt
           IN  IF t <= 0
               THEN {[s EXCEPT !.phase_timer = t, !.phase = "battle",
                               !.custom_gauge = custom_gauge_max]}
               ELSE {[s EXCEPT !.phase_timer = t]}
      [] s.phase = "battle" -> UpdateBattle(s, dt)
      [] s.phase = "custom" -> {FillGauge(s, dt)}
      [] s.phase \in {"win", "lose"} -> {[s EXCEPT !.phase_timer = s.phase_timer - dt]}
      [] OTHER -> {s}

\* a win screen that pays the reward again on every tick
UpdatePhase_PayEachTick(s, dt) ==
    CASE s.phase = "intro" ->
           LET t == s.phase_timer - dt
           IN  IF t <= 0
               THEN {[s EXCEPT !.phase_timer = t, !.phase = "battle",
                               !.custom_gauge = custom_gauge_max]}
               ELSE {[s EXCEPT !.phase_timer = t]}
      [] s.phase = "battle" -> UpdateBattle(s, dt)
      [] s.phase = "win" -> {[s EXCEPT !.phase_timer = s.phase_timer - dt,
                                       !.zenny = s.zenny + s.rewards.zenny]}
      [] s.phase = "lose" -> {[s EXCEPT !.phase_timer = s.phase_timer - dt]}
      [] OTHER -> {s}

\* update(): the phase logic
UpdatePhase(s, dt) ==
    CASE s.phase = "intro" ->
           LET t == s.phase_timer - dt
           IN  IF t <= 0
               THEN {[s EXCEPT !.phase_timer = t, !.phase = "battle",
                               !.custom_gauge = custom_gauge_max]}
               ELSE {[s EXCEPT !.phase_timer = t]}
      [] s.phase = "battle" -> UpdateBattle(s, dt)
      [] s.phase \in {"win", "lose"} -> {[s EXCEPT !.phase_timer = s.phase_timer - dt]}
      [] OTHER -> {s}

\* BattleScene.update: the set of results
UpdateScene(s, dt) == UpdatePhase(UpdateCommon(s, dt), dt)

----------------------------------------------------------------------------
(* handle_event(event) *)

Injective(f) == \A i, j \in DOMAIN f : i # j => f[i] # f[j]

\* a draw that may take the same folder entry twice
Sample_WithReplacement(deck, n) ==
    {[i \in 1..n |-> deck[f[i]]] : f \in [1..n -> 1..Len(deck)]}

\* random.sample(deck, n): n entries at distinct positions, in any order
Sample(deck, n) ==
    {[i \in 1..n |-> deck[f[i]]] : f \in {g \in [1..n -> 1..Len(deck)] : Injective(g)}}

\* BattleScene._open_custom_screen: the set of results
OpenCustomScreen(s) ==
    LET hands == IF Len(s.folder_chips) >= 5 THEN Sample(s.folder_chips, 5)
                 ELSE {s.folder_chips}
    IN  {[s EXCEPT !.phase = IF h = << >> THEN "battle" ELSE "custom",
                   !.custom_gauge = 0, !.drawn_chips = h,
                   !.selected_chips = << >>, !.chip_cursor = 0] : h \in hands}

\* a close that keeps what was still queued
CloseCustomScreen_Append(s) ==
    [s EXCEPT !.chip_queue = s.chip_queue \o s.selected_chips, !.selected_chips = << >>,
              !.phase = "battle"]

\* BattleScene._close_custom_screen
CloseCustomScreen(s) ==
    [s EXCEPT !.chip_queue = s.selected_chips, !.selected_chips = << >>,
              !.phase = "battle"]

\* list.remove(x): the first entry equal to x goes
RemoveFirst(seq, x) ==
    LET k == CHOOSE i \in 1..Len(seq) : seq[i] = x /\ \A j \in 1..(i - 1) : seq[j] # x
    IN  [i \in 1..(Len(seq) - 1) |-> IF i < k THEN seq[i] ELSE seq[i + 1]]

InSeq(x, seq) == \E i \in 1..Len(seq) : seq[i] = x

\* handle_event, phase custom, action confirm
ToggleChip(s) ==
    IF s.chip_cursor < Len(s.drawn_chips)
    THEN LET chip == s.drawn_chips[s.chip_cursor + 1]
         IN  IF InSeq(chip, s.selected_chips)
             THEN [s EXCEPT !.selected_chips = RemoveFirst(@, chip)]
             ELSE IF Len(s.selected_chips) < 5
             THEN [s EXCEPT !.selected_chips = Append(@, chip)]
             ELSE s
    ELSE s

Actions == {"confirm", "cancel", "left", "right", "start"}

\* a confirm that opens the custom screen whatever the gauge
BattleEvent_NoGaugeGuard(s, action) ==
    IF action = "confirm"
    THEN OpenCustomScreen(s)
    ELSE IF action = "cancel" /\ s.chip_queue # << >>
    THEN {UseChip([s EXCEPT !.chip_queue = Tail(@)], Head(s.chip_queue))}
    ELSE {s}

\* a trigger that takes the newest chip of the queue
BattleEvent_Lifo(s, action) ==
    IF action = "confirm" /\ s.custom_gauge >= custom_gauge_max
    THEN OpenCustomScreen(s)
    ELSE IF action = "cancel" /\ s.chip_queue # << >>
    THEN {UseChip([s EXCEPT !.chip_queue = SubSeq(@, 1, Len(@) - 1)],
                  s.chip_queue[Len(s.chip_queue)])}
    ELSE {s}

\* handle_event, phase battle
BattleEvent(s, action) ==
    IF action = "confirm" /\ s.custom_gauge >= custom_gauge_max
    THEN OpenCustomScreen(s)
    ELSE IF action = "cancel" /\ s.chip_queue # << >>
    THEN {UseChip([s EXCEPT !.chip_queue = Tail(@)], Head(s.chip_queue))}
    ELSE {s}

\* BattleScene.handle_event: the set of results
HandleEvent(s, action) ==
    CASE s.phase = "battle" -> BattleEvent(s, action)
      [] s.phase = "custom" ->
           CASE action = "left" ->
                  {[s EXCEPT !.chip_cursor = Max(0, s.chip_cursor - 1)]}
             [] action = "right" ->
                  {[s EXCEPT !.chip_cursor =
                       Min(Len(s.drawn_chips) - 1, s.chip_cursor + 1)]}
             [] action = "confirm" -> {ToggleChip(s)}
             [] action \in {"cancel", "start"} -> {CloseCustomScreen(s)}
             [] OTHER -> {s}
      [] s.phase \in {"win", "lose"} /\ action = "confirm" ->
           {[s EXCEPT !.scene = IF s.phase = "win" THEN "previous" ELSE "hub"]}
      [] OTHER -> {s}

----------------------------------------------------------------------------
(* Bounds and inputs *)

\* update calls with dt > 0 the model takes in phase battle
MaxTicks == 2

\* in the phases win and lose the model takes update calls with dt > 0 until
\* the display timer is this far below zero
MaxOvertime == 1

\* _spawn_enemies: an outcome of the spawn rolls (template index and tile of
\* each enemy)
SpawnEnemies(spawn, at, mt) ==
    [i \in 1..Len(spawn) |->
        LET template == virus_types[spawn[i].t]
            pos      == spawn_positions[spawn[i].pos]
        IN  Enemy(template.name, template.hp, template.attack, template.defense,
                  pos[1], pos[2], FALSE, at, mt)]

\* _spawn_enemies with the boss that area_scene._start_battle passes
BossEnemies(at, mt) == << Enemy(N_BossVirus, 100, 18, 4, 4, 1, TRUE, at, mt) >>

\* The battles the model starts: the game state on entry (navi, folder), the
\* spawn rolls (spawn or boss, at and mt the first attack and move timers) and
\* the frame times dts the main loop passes to update.
DefaultNavi == [hp |-> 100, max_hp |-> 100, defense |-> 5, buster_attack |-> 1]
OneMetaur   == << [t |-> 1, pos |-> 2] >>

\* two Metaurs (hp 40 at (5,1), hp 50 at (4,0)) against two cannons
ScTwo ==
    [navi |-> DefaultNavi, boss |-> FALSE,
     spawn |-> << [t |-> 1, pos |-> 2], [t |-> 2, pos |-> 1] >>,
     folder |-> << CHIP_DATABASE.HiCannon, CHIP_DATABASE.MCannon >>,
     dts |-> {0, Secs(50)}, at |-> Secs(150), mt |-> Secs(80)]

\* a navi one hit from deletion
ScLowHp ==
    [navi |-> [DefaultNavi EXCEPT !.hp = 5], boss |-> FALSE, spawn |-> OneMetaur,
     folder |-> << CHIP_DATABASE.HiCannon >>,
     dts |-> {0, Secs(50)}, at |-> Secs(50), mt |-> Secs(50)]

\* the boss of area_scene, with a defensive folder
ScBoss ==
    [navi |-> [DefaultNavi EXCEPT !.hp = 10], boss |-> TRUE, spawn |-> << >>,
     folder |-> << CHIP_DATABASE.Invis, CHIP_DATABASE.Recover10 >>,
     dts |-> {0, Secs(50)}, at |-> Secs(50), mt |-> Secs(50)]

\* frames long enough to refill the custom gauge
ScRefill ==
    [navi |-> DefaultNavi, boss |-> FALSE, spawn |-> OneMetaur,
     folder |-> << CHIP_DATABASE.MiniBomb >>,
     dts |-> {0, 15 * TimeScale}, at |-> Secs(50), mt |-> Secs(50)]

\* an empty folder
ScNoChips ==
    [navi |-> DefaultNavi, boss |-> FALSE, spawn |-> OneMetaur,
     folder |-> << >>,
     dts |-> {0, Secs(50), 15 * TimeScale}, at |-> Secs(50), mt |-> Secs(50)]

\* a folder of more than five chips
ScBigFolder ==
    [navi |-> DefaultNavi, boss |-> FALSE, spawn |-> OneMetaur,
     folder |-> << CHIP_DATABASE.Cannon, CHIP_DATABASE.Cannon, CHIP_DATABASE.Cannon,
                   CHIP_DATABASE.Cannon, CHIP_DATABASE.Cannon, CHIP_DATABASE.Recover10 >>,
     dts |-> {Secs(50)}, at |-> Secs(150), mt |-> Secs(80)]

\* a navi one hit from deletion that throws a bomb, with short frames
ScLoseBomb ==
    [navi |-> [DefaultNavi EXCEPT !.hp = 5], boss |-> FALSE, spawn |-> OneMetaur,
     folder |-> << CHIP_DATABASE.MiniBomb >>,
     dts |-> {Secs(25), Secs(50)}, at |-> Secs(50), mt |-> Secs(50)]

\* a navi whose defense exceeds the Metaur's attack, as its buster attack
\* is below the Metaur's defense; no chips
ScArmored ==
    [navi |-> [DefaultNavi EXCEPT !.defense = 12], boss |-> FALSE, spawn |-> OneMetaur,
     folder |-> << >>,
     dts |-> {Secs(50), Secs(100)}, at |-> Secs(50), mt |-> Secs(50)]

\* a navi one hit from deletion with an Invis chip, against a Metaur's waves
ScInvisWave ==
    [navi |-> [DefaultNavi EXCEPT !.hp = 5], boss |-> FALSE, spawn |-> OneMetaur,
     folder |-> << CHIP_DATABASE.Invis >>,
     dts |-> {Secs(50)}, at |-> Secs(50), mt |-> Secs(50)]

\* three invis chips: Invis, an Invis of another code, and an Invis that
\* carries params = {"duration": 1.0}
InvisJ     == Chip(N_Invis, "defense", 0, "J")
InvisShort == ChipWith(Chip(N_Invis, "defense", 0, "S"), "None", [duration |-> Secs(100)])

ScInvisStack ==
    [navi |-> DefaultNavi, boss |-> FALSE, spawn |-> OneMetaur,
     folder |-> << CHIP_DATABASE.Invis, InvisJ, InvisShort >>,
     dts |-> {Secs(50)}, at |-> Secs(150), mt |-> Secs(80)]

\* an attack chip named Bomb, without behavior or params, beside MiniBomb
N_Bomb == <<"B","o","m","b">>
Bomb   == Chip(N_Bomb, "attack", 30, "B")

ScBombs ==
    [navi |-> DefaultNavi, boss |-> FALSE, spawn |-> OneMetaur,
     folder |-> << Bomb, CHIP_DATABASE.MiniBomb >>,
     dts |-> {Secs(25), Secs(50)}, at |-> Secs(150), mt |-> Secs(50)]

\* chips whose name or behavior tag says invis while their category says
\* something else
InvisRecover == Chip(<<"I","n","v","i","s","R","e","c","o","v","e","r">>, "heal", 10, "R")
InvisShot    == Chip(<<"I","n","v","i","s","S","h","o","t">>, "attack", 40, "A")
InvisSword   == Chip(<<"I","n","v","i","s","S","w","o","r","d">>, "sword", 80, "S")
TaggedCannon == ChipWith(Chip(N_Cannon, "attack", 40, "T"), "buff_invis", << >>)

\* a hurt navi with a heal chip and an attack chip that are named invis
ScDispatchHeal ==
    [navi |-> [DefaultNavi EXCEPT !.hp = 95], boss |-> FALSE, spawn |-> OneMetaur,
     folder |-> << InvisRecover, InvisShot >>,
     dts |-> {Secs(50)}, at |-> Secs(150), mt |-> Secs(50)]

\* a sword named invis and a cannon tagged buff_invis, against a Metaur
\* that starts on (4,0)
ScDispatchSword ==
    [navi |-> DefaultNavi, boss |-> FALSE, spawn |-> << [t |-> 1, pos |-> 1] >>,
     folder |-> << InvisSword, TaggedCannon >>,
     dts |-> {Secs(50)}, at |-> Secs(150), mt |-> Secs(50)]

\* Cannon and Barrier
ScPlain ==
    [navi |-> [DefaultNavi EXCEPT !.hp = 95], boss |-> FALSE, spawn |-> OneMetaur,
     folder |-> << CHIP_DATABASE.Cannon, CHIP_DATABASE.Barrier >>,
     dts |-> {Secs(50)}, at |-> Secs(150), mt |-> Secs(50)]


\* a WideSword against two Metaurs that start on (4,0) and (4,2)
ScWideSword ==
    [navi |-> DefaultNavi, boss |-> FALSE,
     spawn |-> << [t |-> 1, pos |-> 1], [t |-> 2, pos |-> 3] >>,
     folder |-> << CHIP_DATABASE.WideSword >>,
     dts |-> {Secs(50)}, at |-> Secs(150), mt |-> Secs(50)]

\* a Sword and a LongSword against a Metaur that starts on (4,0)
ScLongSword ==
    [navi |-> DefaultNavi, boss |-> FALSE, spawn |-> << [t |-> 1, pos |-> 1] >>,
     folder |-> << CHIP_DATABASE.Sword, CHIP_DATABASE.LongSword >>,
     dts |-> {Secs(50)}, at |-> Secs(150), mt |-> Secs(50)]

\* Spreader, and a Spreader that carries behavior "spreader" with
\* params = {"diagonals": False}, against Metaurs on (4,0), (5,0) and (5,1)
SpreaderStraight ==
    ChipWith(Chip(N_Spreader, "attack", 30, "S"), "spreader", [diagonals |-> FALSE])

ScSpread ==
    [navi |-> DefaultNavi, boss |-> FALSE,
     spawn |-> << [t |-> 1, pos |-> 1], [t |-> 2, pos |-> 4], [t |-> 3, pos |-> 2] >>,
     folder |-> << CHIP_DATABASE.Spreader, SpreaderStraight >>,
     dts |-> {Secs(50)}, at |-> Secs(150), mt |-> Secs(80)]

\* an attack chip named AirShot, without behavior or params, against
\* Metaurs that start on (5,1) and (5,0)
AirShot == Chip(<<"A","i","r","S","h","o","t">>, "attack", 20, "A")

ScAirShot ==
    [navi |-> DefaultNavi, boss |-> FALSE,
     spawn |-> << [t |-> 1, pos |-> 2], [t |-> 2, pos |-> 4] >>,
     folder |-> << AirShot >>,
     dts |-> {Secs(50)}, at |-> Secs(150), mt |-> Secs(50)]

\* the boss, which fires projectiles, against a Cannon, with frames that
\* lag: 0.5 s and 1.5 s
ScLag ==
    [navi |-> DefaultNavi, boss |-> TRUE, spawn |-> << >>,
     folder |-> << CHIP_DATABASE.Cannon >>,
     dts |-> {Secs(50), Secs(150)}, at |-> Secs(50), mt |-> Secs(50)]

\* a Cannon against two Metaurs in one row, on (4,0) and (5,0)
ScRow ==
    [navi |-> DefaultNavi, boss |-> FALSE,
     spawn |-> << [t |-> 1, pos |-> 1], [t |-> 2, pos |-> 4] >>,
     folder |-> << CHIP_DATABASE.Cannon >>,
     dts |-> {Secs(50)}, at |-> Secs(150), mt |-> Secs(80)]

Scenarios == {ScTwo, ScLowHp, ScBoss, ScRefill, ScNoChips}

----------------------------------------------------------------------------
(* Specification *)

\* BattleScene.__init__, for the battles of S
InitOf(S) ==
    /\ phase = "intro"
    /\ phase_timer = Secs(100)
    /\ custom_gauge = 0
    /\ \E sc \in S :
          /\ sc.at \in EnemyAttackInit /\ sc.mt \in EnemyMoveInit
          /\ navi = sc.navi
          /\ folder_chips = sc.folder
          /\ frame_times = sc.dts
          /\ enemies = IF sc.boss THEN BossEnemies(sc.at, sc.mt)
                       ELSE SpawnEnemies(sc.spawn, sc.at, sc.mt)
    /\ navi_x = 1 /\ navi_y = 1
    /\ navi_move_timer = 0
    /\ navi_buster_timer = 0
    /\ navi_invis_timer = 0
    /\ projectiles = << >>
    /\ wave_attacks = << >>
    /\ slash_effects = << >>
    /\ impact_effects = << >>
    /\ drawn_chips = << >>
    /\ selected_chips = << >>
    /\ chip_cursor = 0
    /\ chip_queue = << >>
    /\ rewards = [zenny |-> 0, chips |-> << >>]
    /\ battle_result = "None"
    /\ zenny = 50
    /\ owned_chips = << >>
    /\ equipment = [present |-> TRUE, added |-> << >>]
    /\ scene = "battle"
    /\ error = "None"
    /\ nticks = 0
    /\ last = [op |-> "init", arg |-> "None", phase |-> "None"]
    /\ slots = {}

Init == InitOf(Scenarios)

\* the scene receives calls while it is the current scene and the program runs
Running == scene = "battle" /\ error = "None"

Budgeted(ph) == ph = "battle"

\* the display window of win and lose is running, or over by less than MaxOvertime
Showing == phase \in {"win", "lose"} => phase_timer > -MaxOvertime

\* the state r after a call: the variables take r's fields
Becomes(r, op, arg) ==
    /\ phase' = r.phase
    /\ phase_timer' = r.phase_timer
    /\ custom_gauge' = r.custom_gauge
    /\ navi' = r.navi
    /\ navi_x' = r.navi_x
    /\ navi_y' = r.navi_y
    /\ navi_move_timer' = r.navi_move_timer
    /\ navi_buster_timer' = r.navi_buster_timer
    /\ navi_invis_timer' = r.navi_invis_timer
    /\ enemies' = r.enemies
    /\ projectiles' = r.projectiles
    /\ wave_attacks' = r.wave_attacks
    /\ slash_effects' = r.slash_effects
    /\ impact_effects' = r.impact_effects
    /\ drawn_chips' = r.drawn_chips
    /\ selected_chips' = r.selected_chips
    /\ chip_cursor' = r.chip_cursor
    /\ chip_queue' = r.chip_queue
    /\ rewards' = r.rewards
    /\ battle_result' = r.battle_result
    /\ zenny' = r.zenny
    /\ folder_chips' = r.folder_chips
    /\ owned_chips' = r.owned_chips
    /\ equipment' = r.equipment
    /\ scene' = r.scene
    /\ error' = r.error
    /\ frame_times' = frame_times
    /\ last' = IF r = Cur THEN last ELSE [op |-> op, arg |-> arg, phase |-> phase]
    /\ slots' = IF phase # "custom" \/ r.phase # "custom" THEN {}
                ELSE IF op = "event" /\ arg = "confirm" /\ chip_cursor < Len(drawn_chips)
                THEN IF chip_cursor \in slots THEN slots \ {chip_cursor}
                     ELSE IF Cardinality(slots) < 5 THEN slots \cup {chip_cursor}
                     ELSE slots
                ELSE slots

\* BattleScene.update(dt)
UpdateWith(dt) ==
    /\ Running
    /\ dt \in frame_times
    /\ (Budgeted(phase) /\ dt > 0) => nticks < MaxTicks
    /\ dt > 0 => Showing
    /\ \E r \in UpdateScene(Cur, dt) :
          /\ Becomes(r, "update", dt)
          /\ nticks' = IF Budgeted(phase) /\ dt > 0 THEN nticks + 1 ELSE nticks

Update == \E dt \in frame_times : UpdateWith(dt)

\* BattleScene.handle_event(event), for the mapped key events
EventWith(action) ==
    /\ Running
    /\ \E r \in HandleEvent(Cur, action) :
          /\ Becomes(r, "event", action)
          /\ nticks' = nticks

Event == \E action \in Actions : EventWith(action)

Next == Update \/ Event

Spec == Init /\ [][Next]_vars

\* the main loop calls update every frame; the frames of dt > 0 that reach
\* the scene while its intro shows
Frame == phase = "intro" /\ \E dt \in frame_times \ {0} : UpdateWith(dt)

SpecLive == InitOf({ScLowHp, ScRefill, ScNoChips}) /\ [][Next]_vars /\ WF_vars(Frame)

SpecFolder == InitOf({ScBigFolder, ScNoChips}) /\ [][Next]_vars

SpecBombs == InitOf({ScLoseBomb, ScBombs}) /\ [][Next]_vars

SpecFloor == InitOf({ScArmored}) /\ [][Next]_vars

SpecInvis == InitOf({ScInvisWave, ScBoss}) /\ [][Next]_vars

SpecInvisStack == InitOf({ScInvisStack}) /\ [][Next]_vars

SpecDispatch == InitOf({ScDispatchHeal, ScDispatchSword, ScPlain}) /\ [][Next]_vars

SpecHeal == InitOf({ScDispatchHeal, ScBoss}) /\ [][Next]_vars

SpecSwords == InitOf({ScWideSword, ScLongSword}) /\ [][Next]_vars

SpecSpread == InitOf({ScSpread}) /\ [][Next]_vars

SpecPush == InitOf({ScAirShot}) /\ [][Next]_vars

SpecPositions == InitOf({ScAirShot, ScInvisWave}) /\ [][Next]_vars

\* the frames of dt > 0 that reach the scene while it battles: the steps of
\* Update that count a battle tick.  Update can take one whenever the scene
\* runs in phase battle with a tick of the budget left.
BattleFrame ==
    /\ Running /\ phase = "battle" /\ nticks < MaxTicks
    /\ nticks' = nticks + 1

SpecLeak == InitOf({ScLag}) /\ [][Next]_vars /\ WF_nticks(BattleFrame)

SpecDodge == InitOf({ScLag, ScInvisWave}) /\ [][Next]_vars

SpecFirstHit == InitOf({ScRow, ScLag}) /\ [][Next]_vars

\* _resolve_impact as a function of the impact and the enemy list: a due
\* impact of a lobbed chip (the throw lands in columns 3..5 of the navi's row)
\* and one enemy on a tile of the grid
ResolveInputsOf(splashes) ==
    /\ phase = "battle"
    /\ phase_timer = 0
    /\ custom_gauge = 0
    /\ navi = DefaultNavi
    /\ folder_chips = << Bomb, CHIP_DATABASE.MiniBomb >>
    /\ frame_times = {Secs(50)}
    /\ \E gx \in 3..(grid_cols - 1), gy \in 0..(grid_rows - 1),
          ex \in 0..(grid_cols - 1), ey \in 0..(grid_rows - 1),
          splash \in splashes :
          /\ impact_effects = << ImpactEffect(gx, gy, Bomb.power, 0, splash) >>
          /\ enemies = << Enemy(N_Metaur, 40, 10, 2, ex, ey, FALSE, Secs(50), Secs(50)) >>
          /\ navi_x = gx - 3 /\ navi_y = gy
    /\ navi_move_timer = 0
    /\ navi_buster_timer = 0
    /\ navi_invis_timer = 0
    /\ projectiles = << >>
    /\ wave_attacks = << >>
    /\ slash_effects = << >>
    /\ drawn_chips = << >>
    /\ selected_chips = << >>
    /\ chip_cursor = 0
    /\ chip_queue = << >>
    /\ rewards = [zenny |-> 0, chips |-> << >>]
    /\ battle_result = "None"
    /\ zenny = 50
    /\ owned_chips = << >>
    /\ equipment = [present |-> TRUE, added |-> << >>]
    /\ scene = "battle"
    /\ error = "None"
    /\ nticks = 0
    /\ last = [op |-> "init", arg |-> "None", phase |-> "None"]
    /\ slots = {}

\* the call self._resolve_impact(imp) of _update_impacts
Resolve ==
    /\ impact_effects # << >>
    /\ Becomes([Cur EXCEPT !.enemies = ResolveImpact(enemies, Head(impact_effects)),
                           !.impact_effects = Tail(impact_effects)],
               "resolve", Head(impact_effects))
    /\ nticks' = nticks

ResolveInputs == ResolveInputsOf({"single", "cross1"})

SpecResolve == ResolveInputs /\ [][Resolve]_vars

\* the splash shapes _resolve_impact tells apart, and None
SplashShapes == {"None", "single", "cross1", "cross2", "square1"}

SpecResolveAll == ResolveInputsOf(SplashShapes) /\ [][Resolve]_vars

\* The game state between battles: the navi of SceneManager.__init__ and an
\* equipment that owns the four items, nothing or the starter's ATK+1 equipped
EquipInputs ==
    /\ navi = DefaultNavi
    /\ \E eq \in {<< >>, << "ATK+1" >>} :
          equipment = [present |-> TRUE, added |-> << >>, equipped |-> eq]
    /\ scene = "previous"
    /\ phase = "intro"
    /\ phase_timer = Secs(100)
    /\ custom_gauge = 0
    /\ frame_times = {Secs(50)}
    /\ folder_chips = << CHIP_DATABASE.Recover10 >>
    /\ enemies = BossEnemies(Secs(50), Secs(50))
    /\ navi_x = 1 /\ navi_y = 1
    /\ navi_move_timer = 0
    /\ navi_buster_timer = 0
    /\ navi_invis_timer = 0
    /\ projectiles = << >>
    /\ wave_attacks = << >>
    /\ slash_effects = << >>
    /\ impact_effects = << >>
    /\ drawn_chips = << >>
    /\ selected_chips = << >>
    /\ chip_cursor = 0
    /\ chip_queue = << >>
    /\ rewards = [zenny |-> 0, chips |-> << >>]
    /\ battle_result = "None"
    /\ zenny = 50
    /\ owned_chips = << >>
    /\ error = "None"
    /\ nticks = 0
    /\ last = [op |-> "init", arg |-> "None", phase |-> "None"]
    /\ slots = {}

\* the confirm key of the equipment scene on an owned item
ToggleEquip ==
    /\ scene = "previous"
    /\ \E item \in EquipNames :
          Becomes([Cur EXCEPT !.equipment = ToggleEquipment(equipment, item)],
                  "toggle", item)
    /\ nticks' = nticks

\* BattleScene.__init__: self._apply_equipment_bonuses()
EnterBattle ==
    /\ scene = "previous"
    /\ Becomes([Cur EXCEPT !.navi = ApplyEquipmentBonuses(navi, equipment),
                           !.scene = "battle"], "enter", "None")
    /\ nticks' = nticks

\* an attack of the boss or of a Metaur reaches the navi
BattleHit ==
    /\ scene = "battle" /\ navi.hp > 0
    /\ \E d \in {10, 18} : Becomes(NaviHit(Cur, d), "hit", d)
    /\ nticks' = nticks

\* the navi uses a Recover10
BattleHeal ==
    /\ scene = "battle" /\ navi.hp > 0
    /\ Becomes(UseChip(Cur, CHIP_DATABASE.Recover10), "heal", "None")
    /\ nticks' = nticks

\* the battle scene is popped
LeaveBattle ==
    /\ scene = "battle"
    /\ Becomes([Cur EXCEPT !.scene = "previous"], "leave", "None")
    /\ nticks' = nticks

EquipNext == ToggleEquip \/ EnterBattle \/ BattleHit \/ BattleHeal \/ LeaveBattle

SpecEquip == EquipInputs /\ [][EquipNext]_vars

----------------------------------------------------------------------------
(* Properties of the phase machine and the custom gauge *)

\* the step just taken, as last records it
Ticked(ph) == last.op = "update" /\ last.phase = ph
Received(ph, action) == last = [op |-> "event", arg |-> action, phase |-> ph]

\* the step is an update call: one that let battle time pass, or one that
\* changed the scene and is recorded in last
Tick == nticks' # nticks \/ (Cur' # Cur /\ last'.op = "update")

C1_IntroStep ==
    /\ (phase = "intro" /\ phase' # "intro") =>
          /\ phase' = "battle"
          /\ last'.op = "update"
          /\ phase_timer > 0 /\ phase_timer' <= 0
          /\ custom_gauge' = custom_gauge_max
    /\ (phase = "intro" /\ phase_timer' <= 0) => phase' = "battle"

\* C1: the intro timer starts at 1.0 s; from intro the phase changes only to
\* battle, on the update tick that brings the intro timer to zero or below,
\* and the state right after has custom_gauge = custom_gauge_max; with
\* update ticks of dt > 0 repeated, the intro phase is eventually left.
C1_IntroEndsInBattle ==
    /\ [](phase = "intro" => phase_timer \in 1..Secs(100))
    /\ [][C1_IntroStep]_vars
    /\ <>(phase # "intro")

\* the tick that ended the intro
C1_Witness ==
    /\ phase = "battle" /\ Ticked("intro")
    /\ phase_timer <= 0 /\ custom_gauge = custom_gauge_max

\* C2: in every reachable state 0 <= custom_gauge <= custom_gauge_max.
C2_GaugeInRange == custom_gauge >= 0 /\ custom_gauge <= custom_gauge_max

\* a battle tick of dt > 0 that the cap cut short
C2_Witness ==
    /\ Ticked("battle") /\ last.arg > 0
    /\ custom_gauge = custom_gauge_max

C3_BattleTick ==
    (phase = "battle" /\ Tick) =>
       IF Cur' # Cur
       THEN custom_gauge' = Min(custom_gauge + last'.arg, custom_gauge_max)
       ELSE custom_gauge' = custom_gauge

C3_Frozen == phase \in {"custom", "win", "lose"} => custom_gauge' = custom_gauge

\* C3 as stated: custom_gauge grows only on update ticks taken in phase
\* battle, by dt capped at the maximum, and no tick or event taken in custom,
\* win or lose changes it.
C3_GrowsOnlyInBattle ==
    [][/\ custom_gauge' > custom_gauge => (phase = "battle" /\ last'.op = "update")
       /\ C3_BattleTick
       /\ C3_Frozen]_vars

\* C3: custom_gauge grows only on update ticks taken in phase battle, by dt
\* capped at the maximum, or on the tick that ends the intro, which sets it
\* to the maximum; no tick or event taken in custom, win or lose changes it.
C3_GaugeGrowth ==
    [][/\ custom_gauge' > custom_gauge =>
             \/ phase = "battle" /\ last'.op = "update"
             \/ /\ phase = "intro" /\ phase' = "battle" /\ last'.op = "update"
                /\ custom_gauge' = custom_gauge_max
       /\ C3_BattleTick
       /\ C3_Frozen]_vars

\* a battle tick that filled part of the gauge
C3_Witness ==
    /\ Ticked("battle") /\ last.arg > 0
    /\ custom_gauge = last.arg /\ custom_gauge < custom_gauge_max

SelectionState == <<phase, custom_gauge, chip_queue, drawn_chips, selected_chips>>

\* C4: the phase goes from battle to custom only on a confirm event received
\* with custom_gauge >= custom_gauge_max; a confirm received in battle with
\* the gauge below the maximum leaves phase, gauge, chip_queue, hand and
\* selection as they were.
C4_CustomOpensOnFullGauge ==
    [][/\ (phase = "battle" /\ phase' = "custom") =>
             (custom_gauge >= custom_gauge_max /\ Received("battle", "confirm")')
       /\ (phase = "battle" /\ custom_gauge < custom_gauge_max /\ EventWith("confirm")) =>
             UNCHANGED SelectionState]_vars

\* the custom screen opened by a confirm, with a hand to choose from
C4_Witness ==
    /\ phase = "custom" /\ Received("battle", "confirm")
    /\ custom_gauge = 0 /\ drawn_chips # << >>

\* C5 as stated: while the phase is custom an update call changes no
\* projectile, wave or impact effect, no enemy, not the player's hp or
\* position and not the invulnerability timer.
C5_CustomFreezesSimulation ==
    [][(phase = "custom" /\ Update) =>
          UNCHANGED <<projectiles, wave_attacks, impact_effects, enemies,
                      navi, navi_x, navi_y, navi_invis_timer>>]_vars

\* C6: leaving the custom phase happens on cancel or start, sets chip_queue
\* to the selection, in selection order, whatever was queued before, and
\* leads to phase battle with custom_gauge = 0.
C6_CloseReplacesQueue ==
    [][/\ (phase = "custom" /\ phase' # "custom") =>
             /\ last'.op = "event" /\ last'.arg \in {"cancel", "start"}
             /\ chip_queue' = selected_chips
             /\ phase' = "battle" /\ custom_gauge' = 0
       /\ \A a \in {"cancel", "start"} :
             (phase = "custom" /\ EventWith(a)) =>
                (phase' = "battle" /\ chip_queue' = selected_chips)]_vars

\* a custom screen closed with chips selected
C6_Witness ==
    /\ phase = "battle" /\ last.op = "event" /\ last.phase = "custom"
    /\ chip_queue # << >> /\ custom_gauge = 0

Count(x, seq) == Cardinality({i \in 1..Len(seq) : seq[i] = x})

\* C7: while the custom screen is open the hand holds min(5, folder size)
\* chips and no chip more often than the folder does; always the selection
\* has at most 5 chips, all of them in the hand, and chip_queue at most 5.
C7_HandAndSelection ==
    /\ phase = "custom" =>
          /\ Len(drawn_chips) = Min(5, Len(folder_chips))
          /\ \A i \in 1..Len(drawn_chips) :
                Count(drawn_chips[i], drawn_chips) <= Count(drawn_chips[i], folder_chips)
    /\ Len(selected_chips) <= 5
    /\ \A i \in 1..Len(selected_chips) : InSeq(selected_chips[i], drawn_chips)
    /\ Len(chip_queue) <= 5

\* five chips drawn from a folder of six, two of them selected
C7_Witness ==
    /\ phase = "custom" /\ Len(folder_chips) > 5
    /\ Len(drawn_chips) = 5 /\ Len(selected_chips) = 2

\* C8: chip_queue changes only when the custom screen closes or when a
\* cancel received in battle with a non-empty queue takes its head: the
\* rest keeps its order, the state is that of resolving the head chip, and
\* the phase stays battle; a cancel in battle with an empty queue changes
\* nothing.
C8_QueueIsFifo ==
    [][/\ chip_queue' # chip_queue =>
             \/ phase = "custom" /\ phase' = "battle"
             \/ /\ phase = "battle" /\ Received("battle", "cancel")'
                /\ chip_queue # << >> /\ chip_queue' = Tail(chip_queue)
                /\ Cur' = UseChip([Cur EXCEPT !.chip_queue = Tail(@)], Head(chip_queue))
                /\ phase' = "battle"
       /\ (phase = "battle" /\ chip_queue # << >> /\ EventWith("cancel")) =>
             chip_queue' = Tail(chip_queue)
       /\ (phase = "battle" /\ chip_queue = << >> /\ EventWith("cancel")) =>
             UNCHANGED vars]_vars

\* the first of two queued chips used
C8_Witness ==
    /\ Received("battle", "cancel") /\ phase = "battle"
    /\ Len(chip_queue) = 1

AllDeleted(es) == \A k \in 1..Len(es) : ~es[k].alive

\* C9: a tick taken in battle ends in win when no enemy is alive (also with
\* the player's hp at 0 or below), else in lose when the player's hp is 0 or
\* below, else in battle; win and lose are entered from battle only and are
\* not left for another phase.
C9_TerminalCheck ==
    [][/\ (phase = "battle" /\ Tick) =>
             phase' = IF AllDeleted(enemies') THEN "win"
                      ELSE IF navi'.hp <= 0 THEN "lose" ELSE "battle"
       /\ (phase' \in {"win", "lose"} /\ phase' # phase) => phase = "battle"
       /\ phase \in {"win", "lose"} => phase' = phase]_vars

\* a win on the tick that also brought the player's hp to 0
C9_Witness ==
    /\ phase = "win" /\ Ticked("battle")
    /\ navi.hp <= 0 /\ AllDeleted(enemies)

RECURSIVE ZennyFor(_)
ZennyFor(es) == IF es = << >> THEN 0 ELSE 20 + Head(es).max_hp + ZennyFor(Tail(es))

\* C10: in phase win rewards.zenny is the sum over all enemies of
\* 20 + max_hp, whatever the drop rolls gave.
C10_WinZenny == phase = "win" => rewards.zenny = ZennyFor(enemies)

\* the enemies of max_hp 40 and 50 defeated: 130 zenny, with a chip dropped
C10_Witness ==
    /\ phase = "win" /\ Len(enemies) = 2
    /\ rewards.zenny = 130 /\ rewards.chips # << >>

----------------------------------------------------------------------------
(* Properties of the win and lose phases *)

\* C11: the persistent zenny total and the rewards change only on the step
\* from battle to win, the total by exactly rewards.zenny, and on no later
\* tick or event; in phase lose the rewards are those of construction (zenny
\* 0, no chips) and the total is the one the battle started with.
C11_RewardsOnce ==
    /\ [][/\ (zenny' # zenny \/ rewards' # rewards) =>
                (phase = "battle" /\ phase' = "win")
          /\ (phase = "battle" /\ phase' = "win") =>
                zenny' = zenny + rewards'.zenny]_vars
    /\ [](phase = "lose" =>
             (rewards = [zenny |-> 0, chips |-> << >>] /\ zenny = 50))

\* ticks taken in phase win, the reward paid once
C11_Witness ==
    /\ phase = "win" /\ Ticked("win") /\ phase_timer < Secs(200)
    /\ rewards.zenny > 0 /\ zenny = 50 + rewards.zenny

\* C12 as stated: the scene is left (win: back to the caller, lose: to the
\* hub) only once the display timer of 2.5 s has run down to zero.
C12_LeaveAfterWindow ==
    [][scene' # scene => phase_timer <= 0]_vars

\* hp and alive flag of every enemy
EnemyHealth == [k \in 1..Len(enemies) |-> <<enemies[k].hp, enemies[k].alive>>]

\* C13 as stated: once the phase is win or lose no update tick changes an
\* enemy's hp or alive flag or the player's hp.
C13_NoEffectAfterEnd ==
    [][(phase \in {"win", "lose"}) =>
          (EnemyHealth' = EnemyHealth /\ navi'.hp = navi.hp)]_vars

----------------------------------------------------------------------------
(* Properties of damage and invulnerability *)

\* every attack in flight against the enemies is no stronger than defense d
WeakOnEnemies(d) ==
    /\ \A i \in 1..Len(projectiles) :
          projectiles[i].from_enemy \/ projectiles[i].damage <= d
    /\ impact_effects = << >>

\* every attack in flight against the navi is no stronger than its defense
WeakOnNavi ==
    /\ \A i \in 1..Len(projectiles) :
          projectiles[i].from_enemy => projectiles[i].damage <= navi.defense
    /\ \A i \in 1..Len(wave_attacks) : wave_attacks[i].damage <= navi.defense

C14_TickStep ==
    Tick =>
       /\ \A k \in 1..Len(enemies) :
             (WeakOnEnemies(enemies[k].defense) /\ enemies'[k].hp # enemies[k].hp) =>
                enemies'[k].hp = enemies[k].hp - 1
       /\ (WeakOnNavi /\ navi'.hp # navi.hp) => navi'.hp = navi.hp - 1

RECURSIVE HitTimes(_, _, _)
HitTimes(e, damage, n) ==
    IF n = 0 THEN e ELSE EnemyHit(HitTimes(e, damage, n - 1), damage)

\* C14: a hit with raw damage at most the target's defense takes exactly 1
\* hp, from an enemy and from the player alike; an enemy of hp 40 and
\* defense 2 hit with damage 1 is alive after each of the first 39 hits and
\* not alive after the 40th.
C14_DamageFloor ==
    /\ LET e == Enemy(N_Metaur, 40, 10, 2, 5, 1, FALSE, Secs(50), Secs(50))
       IN  /\ \A n \in 0..39 :
                  HitTimes(e, 1, n).alive /\ HitTimes(e, 1, n).hp = 40 - n
           /\ ~HitTimes(e, 1, 40).alive
    /\ [][C14_TickStep]_vars

\* the buster (1 against defense 2) and a wave (10 against defense 12) have
\* each taken exactly 1 hp
C14_Witness ==
    /\ navi.hp = navi.max_hp - 1 /\ navi.defense >= 10
    /\ \E k \in 1..Len(enemies) :
          enemies[k].hp = enemies[k].max_hp - 1 /\ enemies[k].defense > navi.buster_attack

\* C15: on an update tick the invulnerability timer only runs down by dt
\* (to 0 at least), whatever hits the player; while it is still above 0
\* the hit tests of the tick, of enemy projectiles and of wave attacks,
\* leave the player's hp unchanged.
C15_InvisBlocksHits ==
    [][(Tick /\ Cur' # Cur) =>
          /\ navi_invis_timer' = Max(0, navi_invis_timer - last'.arg)
          /\ navi_invis_timer' > 0 => navi'.hp = navi.hp]_vars

\* the wave the Metaur sent on the first tick has reached the player on the
\* second and is gone, the player invulnerable and unhurt
C15_Witness ==
    /\ nticks = 2 /\ Ticked("battle") /\ navi_invis_timer > 0
    /\ IsMetaur(enemies[1].name) /\ enemies[1].attack_timer = Secs(50)
    /\ wave_attacks = << >> /\ navi.hp = 5

\* the duration an invis chip asks for: its duration parameter, else 3.0 s
InvisDuration(chip) ==
    IF chip.params.duration # {} THEN CHOOSE d \in chip.params.duration : TRUE
    ELSE Secs(300)

\* C16: using an invis chip sets the invulnerability timer to the larger of
\* the time left and the chip's duration (3.0 s unless the chip carries a
\* duration parameter), so it neither shortens the time left nor adds to it,
\* and a second chip of the same duration used right after leaves the timer
\* as the first set it.
C16_InvisTakesMaximum ==
    [][(phase = "battle" /\ chip_queue # << >> /\ EventWith("cancel")) =>
          LET chip == Head(chip_queue)
          IN  Contains(Lower(chip.name), <<"i","n","v","i","s">>) =>
                 /\ navi_invis_timer' =
                       IF navi_invis_timer > InvisDuration(chip)
                       THEN navi_invis_timer ELSE InvisDuration(chip)
                 /\ navi_invis_timer' >= navi_invis_timer
                 /\ navi_invis_timer > 0 =>
                       navi_invis_timer' < navi_invis_timer + InvisDuration(chip)]_vars

\* two invis chips used with no tick between them: the timer stands at 3.0 s
C16_Witness ==
    /\ Received("battle", "cancel") /\ nticks = 0
    /\ chip_queue = << InvisJ >> /\ Len(selected_chips) = 0
    /\ navi_invis_timer = Secs(300)

----------------------------------------------------------------------------
(* Properties of lobbed chips and their impacts *)

\* the tiles of the grid an impact of splash single or cross1 covers
Footprint(imp) ==
    {tile \in (0..(grid_cols - 1)) \X (0..(grid_rows - 1)) :
        \/ tile = <<imp.gx, imp.gy>>
        \/ /\ imp.splash = "cross1"
           /\ Abs(tile[1] - imp.gx) + Abs(tile[2] - imp.gy) = 1}

\* the enemies after each impact of a sequence has hit once, in order, the
\* living enemies that stand on its footprint
RECURSIVE HitOnce(_, _)
HitOnce(es, imps) ==
    IF imps = << >> THEN es
    ELSE LET imp == Head(imps)
             after == [k \in 1..Len(es) |->
                         IF es[k].alive /\ <<es[k].x, es[k].y>> \in Footprint(imp)
                         THEN LET hp == es[k].hp - Max(1, imp.damage - es[k].defense)
                              IN  [es[k] EXCEPT !.hp = hp, !.alive = hp > 0]
                         ELSE es[k]]
         IN  HitOnce(after, Tail(imps))

HealthOf(es) == [k \in 1..Len(es) |-> <<es[k].hp, es[k].alive>>]

C17_TickStep ==
    (Tick /\ Cur' # Cur) =>
       LET dt   == last'.arg
           aged == [i \in 1..Len(impact_effects) |->
                       [impact_effects[i] EXCEPT !.timer = @ - dt]]
           due  == SelectSeq(aged, LAMBDA imp : imp.timer <= 0)
           once == HitOnce(enemies, due)
       IN  /\ impact_effects' = SelectSeq(aged, LAMBDA imp : imp.timer > 0)
           /\ phase # "battle" => HealthOf(enemies') = HealthOf(once)
           /\ phase = "battle" =>
                 \A k \in 1..Len(enemies) :
                    (once[k].hp - enemies'[k].hp) \in 0..Len(projectiles)

C17_EventStep ==
    (~Tick) =>
       /\ Len(impact_effects') >= Len(impact_effects)
       /\ SubSeq(impact_effects', 1, Len(impact_effects)) = impact_effects

\* C17: an impact stays in the collection, only counting down, until the
\* first update tick that brings its countdown to 0 or below; on that tick
\* it hits once the living enemies on its footprint and leaves the
\* collection, so that no later tick resolves it again.
C17_ImpactResolvesOnce ==
    /\ [](\A i \in 1..Len(impact_effects) :
             impact_effects[i].alive /\ impact_effects[i].timer > 0)
    /\ [][C17_TickStep /\ C17_EventStep]_vars

\* the Bomb (30 against defense 2) has resolved on the Metaur of hp 40, once
C17_Witness ==
    /\ last.op = "update" /\ last.arg > 0 /\ impact_effects = << >>
    /\ phase = "battle" /\ enemies[1].hp = enemies[1].max_hp - (Bomb.power - enemies[1].defense)

\* the tiles of the grid among a centre and its four neighbours
CrossOf(gx, gy) ==
    {<<gx, gy>>, <<gx - 1, gy>>, <<gx + 1, gy>>, <<gx, gy - 1>>, <<gx, gy + 1>>}
       \cap ((0..(grid_cols - 1)) \X (0..(grid_rows - 1)))

\* C18: a cross1 impact centred on (gx, gy) damages, by max(1, damage -
\* defense), exactly the enemies that stand on the tiles of the grid among
\* the centre and its four neighbours; centred on (3,1) these are the enemies
\* on (2,1), (4,1), (3,0), (3,2) and (3,1), and none on (5,1) or elsewhere.
\* The neighbours that fall off the grid are passed over and the call ends
\* without an error.
C18_CrossFootprint ==
    [][(last'.op = "resolve" /\ last'.arg.splash = "cross1") =>
          LET imp == last'.arg
              hit(k) == enemies'[k].hp = enemies[k].hp - Max(1, imp.damage - enemies[k].defense)
              same(k) == enemies'[k] = enemies[k]
          IN  /\ error' = "None"
              /\ \A k \in 1..Len(enemies) :
                    IF <<enemies[k].x, enemies[k].y>> \in CrossOf(imp.gx, imp.gy)
                    THEN hit(k) /\ ~same(k) ELSE same(k)
              /\ (imp.gx = 3 /\ imp.gy = 1) =>
                    \A k \in 1..Len(enemies) :
                       ~same(k) <=> <<enemies[k].x, enemies[k].y>> \in
                                       {<<2, 1>>, <<4, 1>>, <<3, 0>>, <<3, 2>>, <<3, 1>>}]_vars

\* a cross1 impact whose right and upper neighbours are off the grid has
\* resolved, and the enemy on the tile to its left is hurt
C18_Witness ==
    /\ last.op = "resolve" /\ last.arg.splash = "cross1"
    /\ last.arg.gx = grid_cols - 1 /\ last.arg.gy = 0
    /\ enemies[1].x = grid_cols - 2 /\ enemies[1].y = 0
    /\ enemies[1].hp = 12

\* an attack chip that carries no behavior and whose name holds "bomb"
BombNamed(chip) ==
    /\ chip.chip_type = "attack" /\ chip.behavior = "None"
    /\ Contains(Lower(chip.name), <<"b","o","m","b">>)

\* C19: using an attack chip without behavior whose name holds "bomb", in
\* any case of letters, lobs it: one impact is added on the navi's row at
\* column min(cols - 1, navi_x + 3) with the chip's power as damage, of splash
\* single if the name also holds "mini" and cross1 otherwise, and no
\* projectile is spawned.
C19_BombIsLobbed ==
    [][(phase = "battle" /\ chip_queue # << >> /\ BombNamed(Head(chip_queue))
            /\ EventWith("cancel")) =>
          LET chip == Head(chip_queue)
              imp  == impact_effects'[Len(impact_effects')]
          IN  /\ Len(impact_effects') = Len(impact_effects) + 1
              /\ SubSeq(impact_effects', 1, Len(impact_effects)) = impact_effects
              /\ imp.gx = Min(grid_cols - 1, navi_x + 3) /\ imp.gy = navi_y
              /\ imp.damage = chip.power
              /\ imp.splash = IF Contains(Lower(chip.name), <<"m","i","n","i">>)
                              THEN "single" ELSE "cross1"
              /\ imp.alive
              /\ projectiles' = projectiles]_vars

\* Bomb and then MiniBomb thrown from column 2: a cross1 impact of damage 30
\* and a single impact of damage 50, both on column 5 of the navi's row
C19_Witness ==
    /\ Received("battle", "cancel") /\ navi_x = 2
    /\ Len(impact_effects) = 2
    /\ impact_effects[1].splash = "cross1" /\ impact_effects[1].damage = Bomb.power
    /\ impact_effects[1].gx = grid_cols - 1 /\ impact_effects[1].gy = navi_y
    /\ impact_effects[2].splash = "single"
    /\ impact_effects[2].damage = CHIP_DATABASE.MiniBomb.power
    /\ impact_effects[2].gx = grid_cols - 1

\* C20: the impact of every attack chip lobbed because its name holds "bomb",
\* mini or not, starts with a countdown of 0.45 s.
C20_BombDelay ==
    [][(phase = "battle" /\ chip_queue # << >> /\ BombNamed(Head(chip_queue))
            /\ EventWith("cancel")) =>
          impact_effects'[Len(impact_effects')].timer = Secs(45)]_vars

\* what the code does: 0.45 s for a name that holds "mini", 0.5 s otherwise
C20_DelayByName ==
    [][(phase = "battle" /\ chip_queue # << >> /\ BombNamed(Head(chip_queue))
            /\ EventWith("cancel")) =>
          impact_effects'[Len(impact_effects')].timer =
             IF Contains(Lower(Head(chip_queue).name), <<"m","i","n","i">>)
             THEN Secs(45) ELSE Secs(50)]_vars

----------------------------------------------------------------------------
(* Properties of the chip resolver *)

\* the chip at the head of the queue is used in this step
Uses(chip) ==
    /\ phase = "battle" /\ chip_queue # << >> /\ chip = Head(chip_queue)
    /\ EventWith("cancel")

\* what a chip use can touch, by branch
Entities == <<projectiles, wave_attacks, slash_effects, impact_effects>>
Others   == <<navi_x, navi_y, navi_move_timer, navi_buster_timer, wave_attacks,
              phase, phase_timer, custom_gauge, drawn_chips, selected_chips,
              rewards, battle_result, zenny, scene, error>>

NoKeyword(chip) ==
    LET name == Lower(chip.name)
    IN  \A w \in {<<"b","o","m","b">>, <<"s","p","r","e","a","d","e","r">>,
                  <<"s","h","o","t","g","u","n">>, <<"a","i","r","s","h","o","t">>,
                  <<"a","i","r"," ","s","h","o","t">>} : ~Contains(name, w)

InvisNamed(chip) ==
    \/ chip.behavior \in {"invis", "buff_invis"}
    \/ Contains(Lower(chip.name), <<"i","n","v","i","s">>)

\* the number of branches of the resolver that show in a step
Branches ==
    Cardinality({b \in {"heal", "invis", "sword", "attack"} :
        \/ b = "heal"   /\ navi' # navi
        \/ b = "invis"  /\ navi_invis_timer' # navi_invis_timer
        \/ b = "sword"  /\ slash_effects' # slash_effects
        \/ b = "attack" /\ <<projectiles, impact_effects>>' # <<projectiles, impact_effects>>})

C21_UseStep ==
    (chip_queue # << >> /\ Uses(Head(chip_queue))) =>
       LET chip == Head(chip_queue)
       IN
          /\ chip_queue' = Tail(chip_queue)
          /\ Others' = Others
          /\ Branches <= 1
          /\ chip.chip_type = "heal" =>
                /\ navi'.hp = Min(navi.max_hp, navi.hp + chip.power)
                /\ <<navi_invis_timer, enemies, Entities>>' = <<navi_invis_timer, enemies, Entities>>
          /\ (chip.chip_type # "heal" /\ InvisNamed(chip)) =>
                /\ navi_invis_timer' >= Secs(300)
                /\ <<navi, enemies, Entities>>' = <<navi, enemies, Entities>>
          /\ (chip.chip_type = "attack" /\ ~InvisNamed(chip)
                 /\ chip.behavior = "None" /\ NoKeyword(chip)) =>
                /\ Len(projectiles') = Len(projectiles) + 1
                /\ SubSeq(projectiles', 1, Len(projectiles)) = projectiles
                /\ LET p == projectiles'[Len(projectiles')]
                   IN  /\ ~p.from_enemy /\ p.dx = 1 /\ p.dy = 0
                       /\ p.damage = chip.power /\ ~p.pierce /\ p.on_hit = NoOnHit
                       /\ p.y = navi_y * PosScale
                /\ <<navi, navi_invis_timer, enemies, slash_effects, impact_effects>>'
                      = <<navi, navi_invis_timer, enemies, slash_effects, impact_effects>>

\* C21: a chip use takes the first branch that matches, in the order heal,
\* invis, sword family, attack, and only that one: a heal chip only heals
\* though its name holds "invis"; a chip tagged invis or buff_invis, or named
\* invis, that is not a heal chip only grants invulnerability though its
\* category is attack or sword; an attack chip with no behavior and no
\* keyword in its name spawns exactly one plain straight projectile of the
\* player's.
C21_FirstMatchWins == [][C21_UseStep]_vars

\* the sword named invis, used with the Metaur on the tile in front of the
\* navi: invulnerability, no slash, the Metaur unhurt
C21_Witness ==
    /\ Received("battle", "cancel") /\ chip_queue = << TaggedCannon >>
    /\ navi_invis_timer = Secs(300) /\ slash_effects = << >>
    /\ \E k \in 1..Len(enemies) :
          /\ enemies[k].x = navi_x + 1 /\ enemies[k].y = navi_y
          /\ enemies[k].hp = enemies[k].max_hp

\* C22: using a chip that is neither heal, sword, widesword, longsword nor
\* attack, and is not an invis chip (Barrier, of category defense), takes
\* the chip off the queue and does nothing else: no error, and no hp,
\* position, timer or entity collection changes.
C22_UnknownCategoryNoOp ==
    [][(chip_queue # << >> /\ Uses(Head(chip_queue))
           /\ Head(chip_queue).chip_type \notin {"heal", "sword", "widesword", "longsword", "attack"}
           /\ ~InvisNamed(Head(chip_queue))) =>
          /\ chip_queue' = Tail(chip_queue)
          /\ error' = "None"
          /\ <<navi, enemies, navi_invis_timer, Entities, Others>>'
                = <<navi, enemies, navi_invis_timer, Entities, Others>>]_vars

\* Barrier used first, Cannon still queued
C22_Witness ==
    /\ Received("battle", "cancel") /\ error = "None"
    /\ chip_queue = << CHIP_DATABASE.Cannon >> /\ drawn_chips # << >>
    /\ projectiles = << >> /\ nticks = 0

\* C23: using a heal chip sets the navi's hp to min(max_hp, hp + power) in
\* the same call and spawns no projectile, impact or slash; the navi's hp
\* never exceeds max_hp.
C23_HealIsCapped ==
    /\ [][(chip_queue # << >> /\ Uses(Head(chip_queue))
              /\ Head(chip_queue).chip_type = "heal") =>
             /\ navi'.hp = (IF navi.hp + Head(chip_queue).power > navi.max_hp
                            THEN navi.max_hp ELSE navi.hp + Head(chip_queue).power)
             /\ navi'.max_hp = navi.max_hp
             /\ Entities' = Entities]_vars
    /\ [](navi.hp <= navi.max_hp)

\* a heal of 10 on a navi at 95 of 100: the hp stands at 100
C23_Witness ==
    /\ Received("battle", "cancel") /\ nticks = 0
    /\ chip_queue = << InvisShot >> /\ navi.max_hp = 100 /\ navi.hp = 100
    /\ Entities = << << >>, << >>, << >>, << >> >>

----------------------------------------------------------------------------
(* Properties of swords *)

\* the offsets of each sword's range pattern
SwordOffsets(chip_type) ==
    CASE chip_type = "sword"     -> {<<1, 0>>}
      [] chip_type = "widesword" -> {<<1, -1>>, <<1, 0>>, <<1, 1>>}
      [] chip_type = "longsword" -> {<<1, 0>>, <<2, 0>>}

\* the target tiles of a sword used from the navi's tile that are on the grid
SwordTiles(chip_type) ==
    {<<navi_x + o[1], navi_y + o[2]>> : o \in SwordOffsets(chip_type)}
       \cap ((0..(grid_cols - 1)) \X (0..(grid_rows - 1)))

C24_UseStep ==
    (chip_queue # << >> /\ Uses(Head(chip_queue))
        /\ Head(chip_queue).chip_type \in {"sword", "widesword", "longsword"}
        /\ ~InvisNamed(Head(chip_queue))) =>
       LET chip  == Head(chip_queue)
           tiles == SwordTiles(chip.chip_type)
           slash == slash_effects'[Len(slash_effects')]
       IN  /\ \A k \in 1..Len(enemies) :
                 IF enemies[k].alive /\ <<enemies[k].x, enemies[k].y>> \in tiles
                 THEN LET hp == enemies[k].hp - Max(1, chip.power - enemies[k].defense)
                      IN  enemies'[k] = [enemies[k] EXCEPT !.hp = hp, !.alive = hp > 0]
                 ELSE enemies'[k] = enemies[k]
           /\ Len(slash_effects') = Len(slash_effects) + 1
           /\ SubSeq(slash_effects', 1, Len(slash_effects)) = slash_effects
           /\ {slash.positions[i] : i \in 1..Len(slash.positions)} = tiles
           /\ Len(slash.positions) = Cardinality(tiles)
           /\ <<navi, projectiles, wave_attacks, impact_effects>>'
                 = <<navi, projectiles, wave_attacks, impact_effects>>

\* an update tick that starts with a slash showing and nothing in flight
\* that could hurt an enemy leaves every enemy's health as it was
C24_LaterTick ==
    (Tick /\ slash_effects # << >> /\ projectiles = << >> /\ impact_effects = << >>) =>
       HealthOf(enemies') = HealthOf(enemies)

\* C24: a sword chip does its damage when it is used and only then: every
\* living enemy on an in-bounds target tile of its range pattern (sword
\* (1,0); widesword (1,-1), (1,0), (1,1); longsword (1,0), (2,0), from the
\* navi's tile) is hit once with the chip's power and no other enemy is
\* hit; the slash effect created records exactly the in-bounds target tiles
\* and hurts no enemy in a later tick.
C24_SwordHitsAtUse == [][C24_UseStep /\ C24_LaterTick]_vars

\* a WideSword used from (2,1) with the two Metaurs on (3,0) and (3,2):
\* both hit once, three tiles recorded
C24_Witness ==
    /\ Received("battle", "cancel") /\ navi_x = 2 /\ navi_y = 1
    /\ Len(slash_effects) = 1 /\ Len(slash_effects[1].positions) = 3
    /\ Len(enemies) = 2
    /\ enemies[1].x = 3 /\ enemies[1].y = 0 /\ enemies[1].hp = 40 - (80 - 2)
    /\ enemies[2].x = 3 /\ enemies[2].y = 2 /\ enemies[2].hp = 50 - (80 - 1)

----------------------------------------------------------------------------
(* Properties of projectiles *)

GridTiles == (0..(grid_cols - 1)) \X (0..(grid_rows - 1))

\* the secondary tiles of a spreader that struck an enemy on (x, y)
SpreadTiles(x, y, diagonals) ==
    ({<<x + 1, y>>} \cup
     (IF diagonals THEN {<<x + 1, y - 1>>, <<x + 1, y + 1>>} ELSE {}))
       \cap GridTiles

\* the damage one hit of raw damage d does to enemy e
Hurt(e, d) == Max(1, d - e.defense)

\* the enemy a lone player projectile strikes in a tick of dt: the first
\* living enemy of the list within its hit radius after it moved, 0 if none
Struck(p, dt) ==
    LET q   == [p EXCEPT !.x = p.x + p.dx * Travel(p.speed, dt),
                         !.y = p.y + p.dy * Travel(p.speed, dt)]
        hit == {k \in 1..Len(enemies) :
                   enemies[k].alive /\ Within(q, enemies[k].x, enemies[k].y)}
    IN  IF OutOfBounds(q.x, q.y) \/ hit = {} THEN 0
        ELSE CHOOSE k \in hit : \A j \in hit : k <= j

C25_TickStep ==
    (/\ Tick /\ phase = "battle" /\ impact_effects = << >>
     /\ Len(projectiles) = 1 /\ projectiles[1].on_hit.kind = "spreader") =>
       LET p == projectiles[1]
           s == Struck(p, last'.arg)
       IN  IF s = 0 THEN HealthOf(enemies') = HealthOf(enemies)
           ELSE LET tiles == SpreadTiles(enemies[s].x, enemies[s].y, p.on_hit.diagonals)
                IN  /\ enemies'[s].hp = enemies[s].hp - Hurt(enemies[s], p.damage)
                    /\ \A k \in (1..Len(enemies)) \ {s} :
                          IF enemies[k].alive /\ <<enemies[k].x, enemies[k].y>> \in tiles
                          THEN enemies'[k].hp = enemies[k].hp - Hurt(enemies[k], p.damage)
                          ELSE enemies'[k].hp = enemies[k].hp

\* C25: when a spreader projectile hits an enemy on (x, y), that enemy takes
\* the chip's damage once, and every living enemy on (x+1, y) and, with
\* diagonals, on (x+1, y-1) and (x+1, y+1) takes it too; each of these tiles
\* is tested against the grid on its own and skipped when off it; no enemy
\* on another tile is hurt.
C25_SpreaderSplash == [][C25_TickStep]_vars

\* a Spreader fired along row 0 struck the Metaur on (4,0): the Metaurs on
\* (5,0) and (5,1) are hurt as well, (5,-1) being off the grid
C25_Witness ==
    /\ Ticked("battle") /\ nticks = 2 /\ chip_queue = << SpreaderStraight >>
    /\ enemies[1].hp = 40 - 28 /\ enemies[2].hp = 50 - 29 /\ enemies[3].hp = 35 - 30
    /\ \A i \in 1..Len(projectiles) : projectiles[i].on_hit.kind # "spreader"

PositionsOf(es) == [k \in 1..Len(es) |-> <<es[k].x, es[k].y>>]

\* no enemy's move timer runs out in a tick of dt
NoEnemyMoves(dt) ==
    \A k \in 1..Len(enemies) : enemies[k].alive => enemies[k].move_timer - dt > 0

C26_TickStep ==
    (/\ Tick /\ phase = "battle" /\ impact_effects = << >>
     /\ Len(projectiles) = 1 /\ projectiles[1].on_hit.kind = "airshot"
     /\ NoEnemyMoves(last'.arg)) =>
       LET p == projectiles[1]
           s == Struck(p, last'.arg)
       IN  IF s = 0 THEN PositionsOf(enemies') = PositionsOf(enemies)
           ELSE LET dest  == Min(5, enemies[s].x + p.on_hit.push)
                    taken == \E j \in (1..Len(enemies)) \ {s} :
                                /\ enemies[j].alive
                                /\ enemies[j].x = dest /\ enemies[j].y = enemies[s].y
                IN  /\ enemies'[s].x = (IF taken THEN enemies[s].x ELSE dest)
                    /\ enemies'[s].y = enemies[s].y
                    /\ enemies'[s].x \in 3..5
                    /\ \A k \in (1..Len(enemies)) \ {s} :
                          <<enemies'[k].x, enemies'[k].y>> = <<enemies[k].x, enemies[k].y>>

\* C26: an airshot projectile that hits an enemy moves it to column
\* min(5, x + push) of its row if and only if no other living enemy stands
\* on that tile, and leaves it where it is otherwise; the push moves no
\* other enemy, changes no row and leaves the struck enemy in columns 3..5.
C26_AirshotPush == [][C26_TickStep]_vars

\* the Metaur struck on (4,1) stays there: the other Metaur stands on (5,1)
C26_Witness ==
    /\ Ticked("battle") /\ nticks = 2 /\ chip_queue = << >> /\ drawn_chips # << >>
    /\ enemies[1].hp = 40 - (AirShot.power - 2) /\ enemies[1].x = 4 /\ enemies[1].y = 1
    /\ enemies[2].hp = 50 /\ enemies[2].x = 5 /\ enemies[2].y = 1

\* C27: in every reachable state every enemy stands on an integer tile of
\* columns 3..5 and rows 0..2 and the navi on one of columns 0..2 and rows
\* 0..2, whatever the enemy moves, airshot pushes, dodges and random steps
\* before it.
C27_PositionsInRange ==
    /\ navi_x \in 0..2 /\ navi_y \in 0..2
    /\ \A k \in 1..Len(enemies) : enemies[k].x \in 3..5 /\ enemies[k].y \in 0..2

\* two ticks on: the navi has stepped to (0,0) and the Metaur it struck on
\* (4,1) with the AirShot has been pushed to (5,1)
C27_Witness ==
    /\ Ticked("battle") /\ nticks = 2 /\ navi_x = 0 /\ navi_y = 0
    /\ Len(enemies) = 2 /\ enemies[1].hp = 40 - (AirShot.power - 2)
    /\ enemies[1].x = 5 /\ enemies[1].y = 1 /\ enemies[1].move_timer = Secs(50)
    /\ enemies[2].x = 4

\* a projectile or wave after a tick of dt
Moved(p, dt) ==
    [p EXCEPT !.x = p.x + p.dx * Travel(p.speed, dt),
              !.y = IF "dy" \in DOMAIN p THEN p.y + p.dy * Travel(p.speed, dt) ELSE p.y]

\* what the tick spawned: a shot at the edge of the navi's tile or an attack
\* at the edge of an enemy's tile
Fresh(p) ==
    \/ /\ p.dx = 1 /\ p.x = navi_x' * PosScale + Tiles(50) /\ p.y = navi_y' * PosScale
    \/ /\ p.dx = -1
       /\ \E k \in 1..Len(enemies') :
             /\ p.x = enemies'[k].x * PosScale - Tiles(50)
             /\ p.y = enemies'[k].y * PosScale

\* the projectiles and waves the scene keeps are alive and within
\* [-1, cols] x [-1, rows]
C28_NoneOutside ==
    /\ \A i \in 1..Len(projectiles) :
          /\ projectiles[i].alive
          /\ ~OutOfBounds(projectiles[i].x, projectiles[i].y)
    /\ \A i \in 1..Len(wave_attacks) :
          /\ wave_attacks[i].alive
          /\ wave_attacks[i].x >= 0 - PosScale /\ wave_attacks[i].x <= grid_cols * PosScale

\* a battle tick of dt > 0 carries every projectile and wave it keeps
\* further along its direction
C28_TickStep ==
    (nticks' # nticks) =>
       LET dt == last'.arg
       IN  /\ \A i \in 1..Len(projectiles) :
                 Moved(projectiles[i], dt).x # projectiles[i].x
           /\ \A i \in 1..Len(wave_attacks) :
                 Moved(wave_attacks[i], dt).x # wave_attacks[i].x
           /\ \A i \in 1..Len(projectiles') :
                 \/ \E j \in 1..Len(projectiles) :
                       projectiles'[i] = Moved(projectiles[j], dt)
                 \/ Fresh(projectiles'[i])
           /\ \A i \in 1..Len(wave_attacks') :
                 \/ \E j \in 1..Len(wave_attacks) :
                       wave_attacks'[i] = Moved(wave_attacks[j], dt)
                 \/ Fresh(wave_attacks'[i])

\* a shot of the Cannon chip is in flight
CannonShot ==
    \E i \in 1..Len(projectiles) : projectiles[i].damage = CHIP_DATABASE.Cannon.power

\* C28: no projectile leaks.  A projectile or wave whose position has left
\* [-1, cols] x [-1, rows] is dropped in the tick in which it left, so the
\* scene keeps none outside; every battle tick of dt > 0 carries what it
\* keeps further along; and while the phase stays battle and the ticks keep
\* coming a shot in flight is removed in the end (here the Cannon's, with
\* two ticks of the budget ahead of it).
C28_NoProjectileLeak ==
    /\ []C28_NoneOutside
    /\ [][C28_TickStep]_vars
    /\ []((phase = "battle" /\ nticks + 2 <= MaxTicks /\ CannonShot)
             => <>(~CannonShot \/ phase # "battle"))

\* the boss fired in the first tick; the second tick, of 1.5 s, carried that
\* projectile past column -1 and dropped it without a hit: the one enemy
\* projectile the scene holds is the one the boss fired in the second tick
C28_Witness ==
    /\ Ticked("battle") /\ nticks = 2 /\ last.arg = Secs(150)
    /\ navi.hp = navi.max_hp
    /\ Cardinality({i \in 1..Len(projectiles) : projectiles[i].from_enemy}) = 1
    /\ \A i \in 1..Len(projectiles) :
          projectiles[i].from_enemy =>
             projectiles[i].x = enemies[1].x * PosScale - Tiles(50)

\* a battle tick that starts with one projectile, without pierce and without
\* on_hit, and nothing else in flight
LoneShot ==
    /\ nticks' # nticks /\ impact_effects = << >> /\ wave_attacks = << >>
    /\ Len(projectiles) = 1
    /\ ~projectiles[1].pierce /\ projectiles[1].on_hit = NoOnHit

Holds(projs, q) == \E i \in 1..Len(projs) : projs[i] = q

C29_TickStep ==
    LoneShot =>
       LET p  == projectiles[1]
           dt == last'.arg
           q  == Moved(p, dt)
           s  == Struck(p, dt)
           inside == ~OutOfBounds(q.x, q.y)
       IN  IF p.from_enemy
           THEN /\ HealthOf(enemies') = HealthOf(enemies)
                /\ IF inside /\ Within(q, navi_x, navi_y)
                   THEN /\ ~Holds(projectiles', q)
                        /\ navi'.hp = (IF navi_invis_timer - dt > 0 THEN navi.hp
                                       ELSE Max(0, navi.hp - Max(1, p.damage - navi.defense)))
                   ELSE /\ navi'.hp = navi.hp
                        /\ inside => Holds(projectiles', q)
           ELSE /\ navi'.hp = navi.hp
                /\ IF s # 0
                   THEN /\ ~Holds(projectiles', q)
                        /\ enemies'[s].hp = enemies[s].hp - Hurt(enemies[s], p.damage)
                        /\ \A k \in (1..Len(enemies)) \ {s} : enemies'[k].hp = enemies[k].hp
                   ELSE /\ HealthOf(enemies') = HealthOf(enemies)
                        /\ inside => Holds(projectiles', q)

\* C29: a projectile without pierce ends on its first hit: in the tick in
\* which it comes within reach of a target it hurts one target, once, and is
\* gone from the collection when the tick ends; until then it hurts nobody.
C29_EndsOnFirstHit == [][C29_TickStep]_vars

\* the Cannon's shot came within reach of both Metaurs of row 0: the first
\* took the hit, the second none, and the shot is gone
C29_Witness ==
    /\ Ticked("battle") /\ nticks = 2 /\ Len(enemies) = 2
    /\ enemies[1].hp = 40 - (CHIP_DATABASE.Cannon.power - 2) /\ enemies[2].hp = 50
    /\ ~CannonShot

C30_TickStep ==
    (nticks' # nticks) =>
       /\ (impact_effects = << >>
              /\ \A i \in 1..Len(projectiles) : projectiles[i].from_enemy) =>
             HealthOf(enemies') = HealthOf(enemies)
       /\ (wave_attacks = << >>
              /\ \A i \in 1..Len(projectiles) : ~projectiles[i].from_enemy) =>
             navi'.hp = navi.hp

\* an enemy that is not alive keeps its hp and stays not alive
C30_DeadStayUntouched ==
    \A k \in 1..Len(enemies) :
       ~enemies[k].alive =>
          /\ Len(enemies') = Len(enemies)
          /\ enemies'[k].hp = enemies[k].hp /\ ~enemies'[k].alive

\* C30: projectiles reach the other side only: a tick in which only enemy
\* projectiles and waves fly changes no enemy's hp; a tick in which only the
\* player's projectiles fly does not change the navi's hp; and no projectile
\* of the player hits an enemy that is not alive.
C30_OpposingSideOnly == [][C30_TickStep /\ C30_DeadStayUntouched]_vars

\* the M-Cannon's shot has come within reach of the tile of the Metaur the
\* HiCannon deleted, and flies on
C30_Witness ==
    /\ Ticked("battle") /\ nticks = 2 /\ Len(enemies) = 2
    /\ ~enemies[1].alive /\ enemies[1].hp = 40 - (CHIP_DATABASE.HiCannon.power - 2)
    /\ enemies[1].x = 5 /\ enemies[1].y = 1 /\ enemies[2].hp = 50
    /\ \E i \in 1..Len(projectiles) :
          /\ projectiles[i].damage = CHIP_DATABASE.MCannon.power
          /\ projectiles[i].x = Tiles(450) /\ projectiles[i].y = PosScale

----------------------------------------------------------------------------
(* Order of the steps of a battle tick *)

\* the enemy a lone player projectile would strike in a tick of dt if its hit
\* test ran on the positions the enemies hold when the tick ends, 0 if none
StruckAfterMoves(p, dt) ==
    LET q   == Moved(p, dt)
        hit == {k \in 1..Len(enemies) :
                   enemies[k].alive /\ Within(q, enemies'[k].x, enemies'[k].y)}
    IN  IF OutOfBounds(q.x, q.y) \/ hit = {} THEN 0
        ELSE CHOOSE k \in hit : \A j \in hit : k <= j

C31_TickStep ==
    (LoneShot /\ ~projectiles[1].from_enemy) =>
       LET p == projectiles[1]
           s == StruckAfterMoves(p, last'.arg)
       IN  \A k \in 1..Len(enemies) :
              enemies'[k].hp = IF k = s THEN enemies[k].hp - Hurt(enemies[k], p.damage)
                               ELSE enemies[k].hp

\* C31: within one battle tick the controllers run before collision is
\* resolved, so that a projectile's hit test sees the positions produced by
\* that tick's controller moves: a lone player shot hurts the first living
\* enemy within reach of it at the position the enemy holds after the tick,
\* and no other.
C31_HitTestAfterControllers == [][C31_TickStep]_vars

\* list is made of n entities carried on from old by a tick of dt, followed
\* by entities that stand where a controller spawned them
CarriedThenFresh(list, old, dt) ==
    \E n \in 0..Len(list) :
       /\ \A i \in 1..n : \E j \in 1..Len(old) : list[i] = Moved(old[j], dt)
       /\ \A i \in (n + 1)..Len(list) : Fresh(list[i])

NothingInFlight ==
    projectiles = << >> /\ wave_attacks = << >> /\ impact_effects = << >>

C32_TickStep ==
    (nticks' # nticks) =>
       /\ CarriedThenFresh(projectiles', projectiles, last'.arg)
       /\ CarriedThenFresh(wave_attacks', wave_attacks, last'.arg)
       /\ NothingInFlight =>
             /\ navi'.hp = navi.hp
             /\ HealthOf(enemies') = HealthOf(enemies)

\* a step that is not an update call in phase battle leaves every projectile
\* and wave where it is
C32_BetweenTicks ==
    (~(last'.op = "update" /\ phase = "battle")) =>
       /\ Len(projectiles') >= Len(projectiles)
       /\ SubSeq(projectiles', 1, Len(projectiles)) = projectiles
       /\ wave_attacks' = wave_attacks

\* C32: what a controller spawns in a battle tick (a buster shot, an enemy
\* projectile, a wave) is appended in that tick and is neither moved nor
\* collision-tested before the next battle tick: when the tick ends it stands
\* at its spawn position behind the entities carried on from before, a tick
\* that began with nothing in flight has hurt nobody, and the steps between
\* two battle ticks leave it in place.
C32_SpawnedWaitsATick == [][C32_TickStep /\ C32_BetweenTicks]_vars

\* the boss stepped to column 3 and fired in the first battle tick while the
\* navi stepped to column 2 of the same row: the projectile stands on the
\* edge of the navi's tile, within its hit radius, and the navi is unhurt
C32_Witness ==
    /\ Ticked("battle") /\ nticks = 1 /\ navi.hp = navi.max_hp
    /\ navi_x = 2 /\ Len(enemies) = 1 /\ enemies[1].x = 3 /\ enemies[1].y = navi_y
    /\ Len(projectiles) = 1 /\ projectiles[1].from_enemy
    /\ projectiles[1].x = navi_x * PosScale + Tiles(50)
    /\ Within(projectiles[1], navi_x, navi_y)

----------------------------------------------------------------------------
(* Enemies that are not alive *)

C33_AliveIffHp ==
    \A k \in 1..Len(enemies) : enemies[k].alive <=> enemies[k].hp > 0

\* an enemy that is not alive keeps every field: alive, hp, both timers and
\* its position
C33_DeadStaysAsItIs ==
    /\ Len(enemies') = Len(enemies)
    /\ \A k \in 1..Len(enemies) : ~enemies[k].alive => enemies'[k] = enemies[k]

\* the attacks a battle tick adds to a side that had none in flight each
\* stand on the edge of the tile of an enemy that is alive
C33_AttacksFromTheLiving ==
    (nticks' # nticks /\ wave_attacks = << >>
        /\ \A i \in 1..Len(projectiles) : ~projectiles[i].from_enemy) =>
       LET FromLiving(p) ==
              \E k \in 1..Len(enemies') :
                 /\ enemies'[k].alive
                 /\ p.x = enemies'[k].x * PosScale - Tiles(50)
                 /\ p.y = enemies'[k].y * PosScale
       IN  /\ \A i \in 1..Len(wave_attacks') : FromLiving(wave_attacks'[i])
           /\ \A i \in 1..Len(projectiles') :
                 projectiles'[i].from_enemy => FromLiving(projectiles'[i])

\* C33: an enemy is alive exactly when its hp is above 0, and an enemy that
\* is not alive stays so: it never becomes alive again, its hp, its move
\* timer, its attack timer and its position never change again, it spawns
\* no attack, and no hit on its tile has an effect on it.
C33_DeadEnemiesAreInert ==
    /\ []C33_AliveIffHp
    /\ [][C33_DeadStaysAsItIs /\ C33_AttacksFromTheLiving]_vars

\* the HiCannon deleted the first Metaur in the first battle tick, before its
\* controller ran; after the second tick its timers still hold their initial
\* values, while the second Metaur has moved and re-armed
C33_Witness ==
    /\ Ticked("battle") /\ nticks = 2 /\ Len(enemies) = 2
    /\ ~enemies[1].alive /\ enemies[1].hp <= 0
    /\ enemies[1].move_timer = Secs(80) /\ enemies[1].attack_timer = Secs(150)
    /\ enemies[2].alive /\ enemies[2].move_timer \in EnemyMoveRearm

----------------------------------------------------------------------------
(* The autopilot's dodge *)

\* the rows of the enemy projectiles and waves the movement check of a tick
\* of dt finds dangerous: those the tick has carried on without a hit, moving
\* left with 0 < x < 3.5, within 0.6 of the navi's row
DangerRows(dt) ==
    LET Threat(p) == LET q == Moved(p, dt)
                     IN  ~Within(q, navi_x, navi_y) /\ Dangerous(q, navi_y)
    IN  {RoundTile(projectiles[i].y) :
            i \in {j \in 1..Len(projectiles) :
                      projectiles[j].from_enemy /\ Threat(projectiles[j])}}
        \cup {RoundTile(wave_attacks[i].y) :
                 i \in {j \in 1..Len(wave_attacks) : Threat(wave_attacks[j])}}

C34_TickStep ==
    (nticks' # nticks /\ navi_move_timer + last'.arg >= Secs(50)
        /\ DangerRows(last'.arg) # {}) =>
       /\ navi_y' \notin DangerRows(last'.arg)
       /\ navi_y' \in 0..2
       /\ navi_x' = navi_x
       /\ \A r \in (0..2) \ DangerRows(last'.arg) :
             Abs(navi_y' - navi_y) <= Abs(r - navi_y)

\* C34: at a movement check (the move timer has reached 0.5 s) that finds an
\* enemy projectile or wave moving left with 0 < x < 3.5 within 0.6 of the
\* navi's row, the navi relocates to the nearest of the two other rows: after
\* the check its row is not the dangerous row, it is in 0..2, and its column
\* is unchanged.
C34_DodgesToNearestRow == [][C34_TickStep]_vars

\* the navi went to row 0 in the first tick and the boss followed and fired;
\* the second tick carried the projectile to x 1.75 of row 0, short of the
\* navi on column 1, and the navi left for row 1
C34_Witness ==
    /\ Ticked("battle") /\ nticks = 2 /\ navi.hp = navi.max_hp
    /\ navi_x = 1 /\ navi_y = 1
    /\ \E i \in 1..Len(projectiles) :
          /\ projectiles[i].from_enemy
          /\ projectiles[i].x = Tiles(175) /\ projectiles[i].y = 0

----------------------------------------------------------------------------
(* Equipment bonuses on battle entry *)

C35_EntryStep ==
    (scene = "previous" /\ scene' = "battle" /\ equipment.present) =>
       /\ navi'.max_hp = 100 + BonusOf(equipment.equipped, "max_hp")
       /\ navi'.buster_attack = 1 + BonusOf(equipment.equipped, "attack")
       /\ navi'.defense = 5 + BonusOf(equipment.equipped, "defense")

\* C35: on every battle entry with equipment present the stats are recomputed
\* from the bases plus the bonuses of what is equipped: max_hp = 100 + bonus,
\* buster_attack = 1 + bonus, defense = 5 + bonus, so that after an item is
\* unequipped the next entry returns its stat to the base.
C35_StatsFromBase == [][C35_EntryStep]_vars

----------------------------------------------------------------------------
(* Chip drops on win *)

\* C36: when the chip-drop roll of a win yields a chip, the win transition
\* completes without error: the name is in the rewards' chips, a chip for it
\* has been added to the owned chips, and battle_result is "win".
C36_ChipDropCompletes ==
    (phase = "win" /\ rewards.chips # << >>) =>
       /\ error = "None"
       /\ battle_result = "win"
       /\ Len(owned_chips) >= Len(rewards.chips)

----------------------------------------------------------------------------
(* Impact footprints of every splash shape *)

\* the tiles of the grid an impact of each shape covers
FootprintOfShape(imp) ==
    {tile \in GridTiles :
        LET ax == Abs(tile[1] - imp.gx)
            ay == Abs(tile[2] - imp.gy)
        IN  CASE imp.splash = "cross1"  -> ax + ay <= 1
              [] imp.splash = "cross2"  -> (ax = 0 /\ ay <= 2) \/ (ay = 0 /\ ax <= 2)
              [] imp.splash = "square1" -> ax <= 1 /\ ay <= 1
              [] OTHER                  -> ax = 0 /\ ay = 0}

\* C37: when an impact resolves, each living enemy on a tile of its footprint
\* takes the damage exactly once, whatever the splash shape (none, single,
\* cross1, cross2, square1) and also on the centre tile, and every other enemy
\* takes none.
C37_EachFootprintEnemyOnce ==
    [][(last'.op = "resolve") =>
          LET imp == last'.arg
          IN  \A k \in 1..Len(enemies) :
                 IF enemies[k].alive
                       /\ <<enemies[k].x, enemies[k].y>> \in FootprintOfShape(imp)
                 THEN enemies'[k].hp = enemies[k].hp - Max(1, imp.damage - enemies[k].defense)
                 ELSE enemies'[k] = enemies[k]]_vars

----------------------------------------------------------------------------
(* The navi's hp stays within its range *)

\* C38: a navi that starts with 0 <= hp <= max_hp keeps 0 <= hp <= max_hp in
\* every reachable state: through the hits it takes, the heal chips it uses
\* and the rescaling of hp when a battle entry applies the equipment bonuses.
C38_HpInRange == 0 <= navi.hp /\ navi.hp <= navi.max_hp

\* a navi hit down to 82 of 100 equipped HP+50 and entered a battle: the
\* entry raised max_hp to 150 and rescaled the hp to 122
C38_Witness ==
    /\ last.op = "enter" /\ scene = "battle"
    /\ navi.max_hp = 150 /\ navi.hp = 122
    /\ InSeqOf("HP+50", equipment.equipped)

----------------------------------------------------------------------------
(* Selecting hand slots *)

\* the chips of the hand on the slots of S, counted by value
OnSlots(chip, S) == Cardinality({i \in S : drawn_chips[i + 1] = chip})

\* C39: in the custom phase each hand slot toggles independently of the
\* others: the selection is made of the chips on the slots that were toggled
\* on, one for each such slot (up to 5), also when two of those slots hold
\* chips of the same name, type, power and code.
C39_SlotsToggleIndependently ==
    phase = "custom" =>
       /\ Len(selected_chips) = Cardinality(slots)
       /\ \A i \in 1..Len(drawn_chips) :
             Count(drawn_chips[i], selected_chips) = OnSlots(drawn_chips[i], slots)

----------------------------------------------------------------------------
(* One enemy to a tile *)

\* C40: in every reachable state no two living enemies stand on the same
\* tile.
C40_NoSharedTile ==
    \A j, k \in 1..Len(enemies) :
       (j # k /\ enemies[j].alive /\ enemies[k].alive) =>
          <<enemies[j].x, enemies[j].y>> # <<enemies[k].x, enemies[k].y>>

====
